---- MODULE Spec2Model ----
(***************************************************************************)
(* Treasury workflow engine (nxtreasuryorg/Agent-2.0).                     *)
(*                                                                         *)
(* Two servers live in the repository:                                     *)
(*   - the Flask server   src/api_server.py            (specification Spec)*)
(*   - the FastAPI server src/treasury_agent/.../api_server.py driving     *)
(*     TreasuryAgent (crew.py)                  (specification SpecFastAPI)*)
(* SpecConc runs the Flask decision handler as two interleaved threads.    *)
(*                                                                         *)
(* Units.  A record amount is an integer number of mills (1/1000 dollar),  *)
(* so that an amount read from a spreadsheet may carry a third decimal.    *)
(* A payment amount, a balance and an allocation are integer cents: they   *)
(* are what _format_currency returns.  A risk score is in tenths.          *)
(* Python's None is the value None below; a dict is a function whose       *)
(* DOMAIN is its key set.  Binary floating point is modelled as exact      *)
(* arithmetic.                                                             *)
(***************************************************************************)
EXTENDS Integers, Sequences, FiniteSets, TLC

VARIABLES
    now,                \* wall clock, hours (datetime.now())
    uuid_count,         \* number of uuid4() values handed out as ids
    proposal_storage,   \* Flask: proposal_id -> proposal_data
    execution_storage,  \* Flask: proposal_id -> execution_result
    response,           \* the answer of the last completed request
    workflow_storage,   \* FastAPI: proposal_id -> TreasuryAgent.workflow_state
    fa_proposal_storage,\* FastAPI: proposal_id -> payment proposal
    crew_instances,     \* FastAPI: ids that own a TreasuryAgent
    threads             \* SpecConc: the request threads of the Flask server

vars == <<now, uuid_count, proposal_storage, execution_storage, response,
          workflow_storage, fa_proposal_storage, crew_instances, threads>>

-----------------------------------------------------------------------------
(* Bounds of the model *)

MaxWorkflows == 1     \* requests ingested in one run
MaxPlans == 2         \* investment plans generated in one run
MaxRecords == 2       \* rows of an uploaded sheet
MaxClock == 25        \* last hour the clock reaches
MaxSteps == 2         \* length steps_completed may grow to by repeated calls
MaxThreads == 2       \* concurrent request threads of the Flask server
MaxTenants == 2       \* workflows side by side where isolation is examined
TickHours == 25       \* one clock step: long enough to pass a 24 h deadline

(* Program constants *)

None == -1
HighValueThresholdDefault == 100000  \* dollars
DailyLimitDefault == 1000000         \* dollars
AutoApprovalLimitDefault == 100000   \* dollars
EscalationThresholdDefault == 500000 \* dollars
HighPriorityAmount == 50000          \* dollars
ApprovalDeadlineHours == 24
InvestmentDeadlineHours == 48
SimulatedFundsPerRecord == 10000     \* dollars
ProcessingFeePerMille == 1           \* processing_fee_rate 0.001

-----------------------------------------------------------------------------
(* Python helpers *)

\* dict.get(k, default)
Get(d, k, default) == IF k \in DOMAIN d THEN d[k] ELSE default

\* d[k] = v on a dict
Put(d, k, v) == [x \in DOMAIN d \cup {k} |-> IF x = k THEN v ELSE d[x]]

RECURSIVE SumSeq(_)
SumSeq(s) == IF s = <<>> THEN 0 ELSE Head(s) + SumSeq(Tail(s))

Min(a, b) == IF a <= b THEN a ELSE b
Max(a, b) == IF a >= b THEN a ELSE b

\* [f(x) for x in s]
MapSeq(s, F(_)) == [i \in 1..Len(s) |-> F(s[i])]

Range(s) == {s[i] : i \in 1..Len(s)}

Dollars(d) == d * 1000   \* dollars as mills
DollarsC(d) == d * 100   \* dollars as cents

\* round(num/den) to the nearest integer, halves away from zero
\* (Decimal.quantize(..., rounding=ROUND_HALF_UP)), den > 0
RoundHalfUp(num, den) ==
    LET a == IF num >= 0 THEN num ELSE -num
        q == (a \div den) + (IF 2 * (a % den) >= den THEN 1 ELSE 0)
    IN  IF num >= 0 THEN q ELSE -q

\* _format_currency of an amount given in mills: cents
format_currency(mills) == RoundHalfUp(mills, 10)

-----------------------------------------------------------------------------
(* RiskAssessmentTool (tools/risk_assessment_tool.py)                       *)
(* A record is [sheet_name, row_number, amount, currency, recipient,       *)
(* description, date]; amount and the limits of user_constraints in mills. *)

transaction_id(record) == <<record.sheet_name, record.row_number>>

\* str.strip().lower() on the recipient names the model uses
strip_lower(s) ==
    CASE s = "ACME " -> "acme"
      [] s = "Unknown" -> "unknown"
      [] OTHER -> s

\* [float(r["amount"]) for r in records if r.get("amount")]
amounts_of(records) ==
    MapSeq(SelectSeq(records, LAMBDA r : r.amount # 0), LAMBDA r : r.amount)

\* amount risks whose high-value factor counts the amounts below the
\* threshold: the variant threshold monotonicity must tell apart
analyze_amount_risks_below(records, user_constraints) ==
    LET amounts == amounts_of(records)
        total_amount == SumSeq(amounts)
        high_value_threshold ==
            Get(user_constraints, "high_value_threshold", Dollars(HighValueThresholdDefault))
        daily_limit == Get(user_constraints, "daily_limit", Dollars(DailyLimitDefault))
        high_value_transactions == SelectSeq(amounts, LAMBDA a : a < high_value_threshold)
        hv_factor ==
            IF high_value_transactions # <<>>
            THEN << [type |-> "HIGH_VALUE_TRANSACTIONS",
                     risk_score |-> Min(30, Len(high_value_transactions) * 5)] >>
            ELSE <<>>
        agg_factor ==
            IF total_amount > daily_limit
            THEN << [type |-> "AGGREGATE_AMOUNT_RISK", risk_score |-> 40] >>
            ELSE <<>>
        flagged ==
            MapSeq(SelectSeq(records, LAMBDA r : r.amount > high_value_threshold),
                   transaction_id)
    IN  IF amounts = <<>>
        THEN [raised |-> FALSE, total_amount |-> 0, amount_risks |-> <<>>,
              flagged_transactions |-> <<>>]
        ELSE IF high_value_threshold = None \/ daily_limit = None
        THEN [raised |-> TRUE, total_amount |-> total_amount, amount_risks |-> <<>>,
              flagged_transactions |-> <<>>]
        ELSE [raised |-> FALSE, total_amount |-> total_amount,
              amount_risks |-> hv_factor \o agg_factor,
              flagged_transactions |-> flagged]

\* _analyze_amount_risks: raised is the TypeError of "float > None"
analyze_amount_risks(records, user_constraints) ==
    LET amounts == amounts_of(records)
        total_amount == SumSeq(amounts)
        high_value_threshold ==
            Get(user_constraints, "high_value_threshold", Dollars(HighValueThresholdDefault))
        daily_limit == Get(user_constraints, "daily_limit", Dollars(DailyLimitDefault))
        high_value_transactions == SelectSeq(amounts, LAMBDA a : a > high_value_threshold)
        hv_factor ==
            IF high_value_transactions # <<>>
            THEN << [type |-> "HIGH_VALUE_TRANSACTIONS",
                     risk_score |-> Min(30, Len(high_value_transactions) * 5)] >>
            ELSE <<>>
        agg_factor ==
            IF total_amount > daily_limit
            THEN << [type |-> "AGGREGATE_AMOUNT_RISK", risk_score |-> 40] >>
            ELSE <<>>
        flagged ==
            MapSeq(SelectSeq(records, LAMBDA r : r.amount > high_value_threshold),
                   transaction_id)
    IN  IF amounts = <<>>
        THEN [raised |-> FALSE, total_amount |-> 0, amount_risks |-> <<>>,
              flagged_transactions |-> <<>>]
        ELSE IF high_value_threshold = None \/ daily_limit = None
        THEN [raised |-> TRUE, total_amount |-> total_amount, amount_risks |-> <<>>,
              flagged_transactions |-> <<>>]
        ELSE [raised |-> FALSE, total_amount |-> total_amount,
              amount_risks |-> hv_factor \o agg_factor,
              flagged_transactions |-> flagged]

\* _analyze_transaction_patterns
analyze_transaction_patterns(records) ==
    LET keys == {strip_lower(records[i].recipient) : i \in 1..Len(records)}
                    \ {"", "unknown"}
        count(k) == Cardinality({i \in 1..Len(records) :
                                    strip_lower(records[i].recipient) = k})
        high_frequency_recipients == {k \in keys : count(k) > 3}
        amounts == amounts_of(records)
        round_numbers ==
            SelectSeq(amounts, LAMBDA a : a % Dollars(100) = 0 /\ a > Dollars(1000))
        dup_factor ==
            IF high_frequency_recipients # {}
            THEN << [type |-> "DUPLICATE_RECIPIENTS", risk_score |-> 10] >>
            ELSE <<>>
        round_factor ==
            IF 2 * Len(round_numbers) > Len(amounts)
            THEN << [type |-> "ROUND_NUMBER_PATTERN", risk_score |-> 15] >>
            ELSE <<>>
    IN  dup_factor \o round_factor

\* the missing_fields test of _analyze_compliance_risks
missing_info(record) ==
    \/ record.recipient = "" \/ record.recipient = "Unknown"
    \/ record.description = "" \/ record.description = "No description provided"
    \/ record.date = ""

\* _analyze_compliance_risks
analyze_compliance_risks(records) ==
    LET missing_info_count == Len(SelectSeq(records, missing_info))
        severity == IF 10 * missing_info_count > 3 * Len(records) THEN "HIGH" ELSE "MEDIUM"
        missing_factor ==
            IF missing_info_count > 0
            THEN << [type |-> "MISSING_REQUIRED_INFO",
                     risk_score |-> IF severity = "MEDIUM" THEN 20 ELSE 35] >>
            ELSE <<>>
        currencies == {records[i].currency : i \in 1..Len(records)}
        currency_factor ==
            IF Cardinality(currencies) > 1
            THEN << [type |-> "MULTI_CURRENCY", risk_score |-> 20] >>
            ELSE <<>>
    IN  missing_factor \o currency_factor

\* the violations one record adds in _analyze_user_constraints
record_violations(record, min_balance, transaction_limit) ==
    (IF record.amount < min_balance
     THEN << [type |-> "BELOW_MINIMUM_BALANCE", transaction_id |-> transaction_id(record)] >>
     ELSE <<>>)
    \o
    (IF transaction_limit # None /\ transaction_limit # 0 /\ record.amount > transaction_limit
     THEN << [type |-> "EXCEEDS_TRANSACTION_LIMIT", transaction_id |-> transaction_id(record)] >>
     ELSE <<>>)

RECURSIVE all_record_violations(_, _, _)
all_record_violations(records, min_balance, transaction_limit) ==
    IF records = <<>> THEN <<>>
    ELSE record_violations(Head(records), min_balance, transaction_limit)
         \o all_record_violations(Tail(records), min_balance, transaction_limit)

\* _analyze_user_constraints: raised is the TypeError of "float < None"
analyze_user_constraints(records, user_constraints) ==
    LET min_balance == Get(user_constraints, "minimum_balance", 0)
        transaction_limit == Get(user_constraints, "transaction_limit", None)
        daily_limit == Get(user_constraints, "daily_limit", None)
        total_amount == SumSeq(MapSeq(records, LAMBDA r : r.amount))
        daily ==
            IF daily_limit # None /\ daily_limit # 0 /\ total_amount > daily_limit
            THEN << [type |-> "EXCEEDS_DAILY_LIMIT", transaction_id |-> <<>>] >>
            ELSE <<>>
    IN  IF min_balance = None
        THEN [raised |-> TRUE, constraint_violations |-> <<>>]
        ELSE [raised |-> FALSE,
              constraint_violations |->
                  all_record_violations(records, min_balance, transaction_limit) \o daily]

\* the sum of _calculate_overall_risk, tenths
total_risk_score(amount_risks, pattern_risks, compliance_risks, constraint_violations) ==
    SumSeq(MapSeq(amount_risks \o pattern_risks \o compliance_risks,
                  LAMBDA f : f.risk_score))
    + Len(constraint_violations) * 20

\* thresholds that a score must exceed, not reach: the variant the level
\* rule must tell apart
risk_level_of_strict(score) ==
    IF score > 70 THEN "CRITICAL"
    ELSE IF score > 40 THEN "HIGH"
    ELSE IF score > 20 THEN "MEDIUM"
    ELSE "LOW"

\* the thresholds of _calculate_overall_risk
risk_level_of(score) ==
    IF score >= 70 THEN "CRITICAL"
    ELSE IF score >= 40 THEN "HIGH"
    ELSE IF score >= 20 THEN "MEDIUM"
    ELSE "LOW"

\* _generate_recommendations
generate_recommendations(risk_level, flagged, violations, factors) ==
    LET recs ==
            (IF risk_level \in {"HIGH", "CRITICAL"}
             THEN <<"manual_review_required", "additional_approval_workflows">> ELSE <<>>)
            \o (IF flagged # <<>> THEN <<"review_flagged_transactions">> ELSE <<>>)
            \o (IF violations # <<>> THEN <<"address_constraint_violations">> ELSE <<>>)
            \o MapSeq(SelectSeq(factors, LAMBDA f : f.type \in
                         {"MISSING_REQUIRED_INFO", "HIGH_VALUE_TRANSACTIONS", "MULTI_CURRENCY"}),
                      LAMBDA f : f.type)
    IN  IF recs = <<>> THEN <<"no_significant_risks", "proceed_standard">> ELSE recs

\* the error_report of RiskAssessmentTool._run
risk_error_report ==
    [success |-> FALSE,
     error |-> "TypeError",
     risk_assessment |-> [risk_level |-> "CRITICAL", compliance_status |-> "ERROR"]]

\* RiskAssessmentTool._run on a parsed excel result (a dict) and the constraints
RiskAssessmentTool_run(financial_data, user_constraints) ==
    LET records == Get(financial_data, "normalized_data", <<>>)
        am == analyze_amount_risks(records, user_constraints)
        pattern_risks == analyze_transaction_patterns(records)
        compliance_risks == analyze_compliance_risks(records)
        uc == analyze_user_constraints(records, user_constraints)
        score == total_risk_score(am.amount_risks, pattern_risks, compliance_risks,
                                  uc.constraint_violations)
        level == risk_level_of(score)
    IN  IF records = <<>>
        THEN [success |-> TRUE,
              risk_assessment |-> [overall_risk_score |-> 0, risk_level |-> "LOW",
                                   compliance_status |-> "COMPLIANT",
                                   total_amount |-> 0, transaction_count |-> 0],
              risk_factors |-> [amount_risks |-> <<>>, pattern_risks |-> <<>>,
                                compliance_risks |-> <<>>, constraint_violations |-> <<>>],
              flagged_transactions |-> <<>>,
              recommendations |-> <<"no_transactions_to_assess">>]
        ELSE IF am.raised \/ uc.raised
        THEN risk_error_report
        ELSE [success |-> TRUE,
              risk_assessment |->
                  [overall_risk_score |-> Min(100, score),
                   risk_level |-> level,
                   compliance_status |->
                       IF uc.constraint_violations # <<>> THEN "NON_COMPLIANT" ELSE "COMPLIANT",
                   total_amount |-> am.total_amount,
                   transaction_count |-> Len(records)],
              risk_factors |-> [amount_risks |-> am.amount_risks,
                                pattern_risks |-> pattern_risks,
                                compliance_risks |-> compliance_risks,
                                constraint_violations |-> uc.constraint_violations],
              flagged_transactions |-> am.flagged_transactions,
              recommendations |->
                  generate_recommendations(level, am.flagged_transactions,
                      uc.constraint_violations,
                      am.amount_risks \o pattern_risks \o compliance_risks)]

-----------------------------------------------------------------------------
(* PaymentFormatterTool (tools/payment_formatter_tool.py)                   *)
(* seed stands for the uuid4() stream of one call: the ids it hands out    *)
(* are <<seed, ...>>, distinct from the ids of every other call.           *)

\* one entry of _process_payments
format_payment(record, index, flagged_transaction_ids, seed) ==
    LET is_flagged == transaction_id(record) \in flagged_transaction_ids
    IN  [payment_id |-> <<seed, index>>,
         transaction_id |-> transaction_id(record),
         amount |-> format_currency(record.amount),
         currency |-> record.currency,
         priority |-> IF record.amount > Dollars(HighPriorityAmount) THEN "HIGH"
                      ELSE IF is_flagged THEN "REVIEW_REQUIRED"
                      ELSE "NORMAL",
         is_flagged |-> is_flagged]

\* _process_payments
process_payments(records, risk_data, seed) ==
    LET flagged_transaction_ids == Range(Get(risk_data, "flagged_transactions", <<>>))
    IN  [i \in 1..Len(records) |->
            format_payment(records[i], i, flagged_transaction_ids, seed)]

batch_key(payment) == <<payment.currency, payment.priority>>

\* the keys of the batches dict, in insertion order
RECURSIVE batch_keys(_, _)
batch_keys(payments, seen) ==
    IF payments = <<>> THEN <<>>
    ELSE IF batch_key(Head(payments)) \in seen THEN batch_keys(Tail(payments), seen)
    ELSE <<batch_key(Head(payments))>>
         \o batch_keys(Tail(payments), seen \cup {batch_key(Head(payments))})

\* a make_batch whose total is assigned, not accumulated, so that it holds
\* the last member's amount: the variant batch conservation must tell apart
make_batch_assigning(payments, key, seed) ==
    LET members == SelectSeq(payments, LAMBDA p : batch_key(p) = key)
    IN  [batch_id |-> <<seed, key>>,
         currency |-> key[1],
         priority |-> key[2],
         payments |-> MapSeq(members, LAMBDA p : p.payment_id),
         total_amount |-> members[Len(members)].amount,
         payment_count |-> Len(members),
         requires_review |->
             \E i \in 1..Len(members) :
                 members[i].is_flagged \/ members[i].priority = "REVIEW_REQUIRED"]

\* the batch accumulated under one key
make_batch(payments, key, seed) ==
    LET members == SelectSeq(payments, LAMBDA p : batch_key(p) = key)
    IN  [batch_id |-> <<seed, key>>,
         currency |-> key[1],
         priority |-> key[2],
         payments |-> MapSeq(members, LAMBDA p : p.payment_id),
         total_amount |-> SumSeq(MapSeq(members, LAMBDA p : p.amount)),
         payment_count |-> Len(members),
         requires_review |->
             \E i \in 1..Len(members) :
                 members[i].is_flagged \/ members[i].priority = "REVIEW_REQUIRED"]

priority_order(priority) ==
    CASE priority = "HIGH" -> 0
      [] priority = "REVIEW_REQUIRED" -> 1
      [] priority = "NORMAL" -> 2
      [] OTHER -> 3

\* the sort key (priority_order, -total_amount), compared as tuples
batch_before(a, b) ==
    \/ priority_order(a.priority) < priority_order(b.priority)
    \/ /\ priority_order(a.priority) = priority_order(b.priority)
       /\ -a.total_amount < -b.total_amount

\* sorted(): stable, by batch_before
RECURSIVE insert_batch(_, _)
insert_batch(sorted, b) ==
    IF sorted = <<>> THEN <<b>>
    ELSE IF batch_before(b, Head(sorted)) THEN <<b>> \o sorted
    ELSE <<Head(sorted)>> \o insert_batch(Tail(sorted), b)

RECURSIVE sort_batches(_)
sort_batches(batches) ==
    IF batches = <<>> THEN <<>>
    ELSE insert_batch(sort_batches(SubSeq(batches, 1, Len(batches) - 1)),
                      batches[Len(batches)])

\* _create_payment_batches
create_payment_batches(payments, seed) ==
    sort_batches(MapSeq(batch_keys(payments, {}),
                        LAMBDA k : make_batch(payments, k, seed)))

\* approval requirements that ask for two approvers whenever a manual review
\* is required: the variant the approver rule must tell apart
payment_approval_requirements_paired(payments, risk_data, user_constraints, clock) ==
    LET risk_level == Get(Get(risk_data, "risk_assessment", <<>>), "risk_level", "MEDIUM")
        total_amount == SumSeq(MapSeq(payments, LAMBDA p : p.amount))
        flagged_count == Len(Get(risk_data, "flagged_transactions", <<>>))
        violation_count ==
            Len(Get(Get(risk_data, "risk_factors", <<>>), "constraint_violations", <<>>))
        auto_approval_limit ==
            Get(user_constraints, "auto_approval_limit", Dollars(AutoApprovalLimitDefault))
        escalation_threshold ==
            Get(user_constraints, "escalation_threshold", Dollars(EscalationThresholdDefault))
        high == risk_level \in {"HIGH", "CRITICAL"}
        requires_manual_review ==
            \/ high
            \/ 10 * total_amount > auto_approval_limit
            \/ flagged_count > 0 \/ violation_count > 0
        escalation_required ==
            risk_level = "CRITICAL" \/ 10 * total_amount > escalation_threshold
    IN  IF (~high /\ auto_approval_limit = None)
           \/ (risk_level # "CRITICAL" /\ escalation_threshold = None)
        THEN [raised |-> TRUE]
        ELSE [raised |-> FALSE,
              requires_manual_review |-> requires_manual_review,
              required_approvers |-> IF escalation_required THEN 3
                                     ELSE IF requires_manual_review THEN 2 ELSE 1,
              approval_deadline |-> IF requires_manual_review
                                    THEN clock + ApprovalDeadlineHours ELSE None,
              escalation_required |-> escalation_required]

\* PaymentFormatterTool._determine_approval_requirements
\* raised is the TypeError of "float > None"
payment_approval_requirements(payments, risk_data, user_constraints, clock) ==
    LET risk_level == Get(Get(risk_data, "risk_assessment", <<>>), "risk_level", "MEDIUM")
        total_amount == SumSeq(MapSeq(payments, LAMBDA p : p.amount))
        flagged_count == Len(Get(risk_data, "flagged_transactions", <<>>))
        violation_count ==
            Len(Get(Get(risk_data, "risk_factors", <<>>), "constraint_violations", <<>>))
        auto_approval_limit ==
            Get(user_constraints, "auto_approval_limit", Dollars(AutoApprovalLimitDefault))
        escalation_threshold ==
            Get(user_constraints, "escalation_threshold", Dollars(EscalationThresholdDefault))
        high == risk_level \in {"HIGH", "CRITICAL"}
        requires_manual_review ==
            \/ high
            \/ 10 * total_amount > auto_approval_limit
            \/ flagged_count > 0 \/ violation_count > 0
        escalation_required ==
            risk_level = "CRITICAL" \/ 10 * total_amount > escalation_threshold
    IN  IF (~high /\ auto_approval_limit = None)
           \/ (risk_level # "CRITICAL" /\ escalation_threshold = None)
        THEN [raised |-> TRUE]
        ELSE [raised |-> FALSE,
              requires_manual_review |-> requires_manual_review,
              required_approvers |-> IF escalation_required THEN 3
                                     ELSE IF high THEN 2 ELSE 1,
              approval_deadline |-> IF requires_manual_review
                                    THEN clock + ApprovalDeadlineHours ELSE None,
              escalation_required |-> escalation_required]

\* _calculate_summary_statistics, merged into the summary of _run
summary_statistics(payments, batches, risk_data) ==
    [total_payments |-> Len(payments),
     total_amount |-> format_currency(10 * SumSeq(MapSeq(payments, LAMBDA p : p.amount))),
     risk_level |-> Get(Get(risk_data, "risk_assessment", <<>>), "risk_level", "MEDIUM"),
     flagged_payments |-> Len(SelectSeq(payments, LAMBDA p : p.is_flagged)),
     total_batches |-> Len(batches),
     batches_requiring_review |-> Len(SelectSeq(batches, LAMBDA b : b.requires_review))]

\* PaymentFormatterTool._run on the parsed excel result and risk report
PaymentFormatterTool_run(financial_data, risk_data, user_constraints, seed, clock) ==
    LET normalized_records == Get(financial_data, "normalized_data", <<>>)
        payments == process_payments(normalized_records, risk_data, seed)
        batches == create_payment_batches(payments, seed)
        reqs == payment_approval_requirements(payments, risk_data, user_constraints, clock)
        risk_level == Get(Get(risk_data, "risk_assessment", <<>>), "risk_level", "MEDIUM")
    IN  IF normalized_records = <<>>
        THEN [proposal_id |-> <<seed, 0>>,
              status |-> "NO_PAYMENTS_REQUIRED",
              summary |-> [total_payments |-> 0, total_amount |-> 0,
                           risk_level |-> risk_level],
              payment_batches |-> <<>>,
              individual_payments |-> <<>>,
              approval_requirements |->
                  [requires_manual_review |-> FALSE, required_approvers |-> 1,
                   approval_deadline |-> None, escalation_required |-> FALSE]]
        ELSE IF reqs.raised
        THEN [proposal_id |-> <<seed, 0>>,
              status |-> "ERROR",
              error |-> "TypeError",
              summary |-> [total_payments |-> 0, total_amount |-> 0]]
        ELSE [proposal_id |-> <<seed, 0>>,
              status |-> "PENDING_APPROVAL",
              summary |-> summary_statistics(payments, batches, risk_data),
              payment_batches |-> batches,
              individual_payments |-> payments,
              approval_requirements |->
                  [requires_manual_review |-> reqs.requires_manual_review,
                   required_approvers |-> reqs.required_approvers,
                   approval_deadline |-> reqs.approval_deadline,
                   escalation_required |-> reqs.escalation_required]]

-----------------------------------------------------------------------------
(* InvestmentAnalyzerTool (tools/investment_analyzer_tool.py)               *)
(* Funds and allocations in cents; percentages as integer percents; the    *)
(* unrounded reserve and investable funds in hundredths of a cent.         *)

\* round(x * w / d) without forming x * w
MulDivRound(x, w, d) == (x \div d) * w + RoundHalfUp((x % d) * w, d)

\* _calculate_emergency_reserve, hundredths of a cent
emergency_reserve_raw(available_funds, preferences) ==
    LET reserve_percentage == Get(preferences, "emergency_reserve_percentage", 10)
        min_reserve == Get(preferences, "minimum_emergency_reserve", DollarsC(1000))
    IN  Min(Max(available_funds * reserve_percentage, min_reserve * 100),
            available_funds * 30)

\* the risk_profiles table of _determine_risk_profile
risk_profile(preferences) ==
    LET risk_tolerance == Get(preferences, "risk_tolerance", "moderate")
    IN  CASE risk_tolerance = "conservative" ->
                 [fiat_allocation |-> 70, crypto_allocation |-> 10,
                  liquidity_allocation |-> 20, risk_level |-> "LOW"]
          [] risk_tolerance = "aggressive" ->
                 [fiat_allocation |-> 30, crypto_allocation |-> 50,
                  liquidity_allocation |-> 20, risk_level |-> "HIGH"]
          [] OTHER ->
                 [fiat_allocation |-> 50, crypto_allocation |-> 30,
                  liquidity_allocation |-> 20, risk_level |-> "MODERATE"]

\* _allocate_funds: the category allocations in cents
allocate_funds(investable_raw, preferences) ==
    LET profile == risk_profile(preferences)
        custom_allocations == Get(preferences, "custom_allocations", <<>>)
        fiat == Get(custom_allocations, "fiat_percentage", profile.fiat_allocation)
        crypto == Get(custom_allocations, "crypto_percentage", profile.crypto_allocation)
        liquidity == Get(custom_allocations, "liquidity_percentage",
                         profile.liquidity_allocation)
        total_percentage == fiat + crypto + liquidity
        alloc(w) == IF total_percentage > 0
                    THEN MulDivRound(investable_raw, w, 100 * total_percentage)
                    ELSE MulDivRound(investable_raw, w, 100)
        pct(w) == IF total_percentage > 0      \* tenths of a percent
                  THEN RoundHalfUp(w * 1000, total_percentage)
                  ELSE w * 10
    IN  [fiat_savings |-> [allocation |-> alloc(fiat), percentage |-> pct(fiat)],
         crypto_defi |-> [allocation |-> alloc(crypto), percentage |-> pct(crypto)],
         liquidity_products |-> [allocation |-> alloc(liquidity),
                                 percentage |-> pct(liquidity)]]

recommendation(plan_id, k, category, type, allocation, risk, liquidity, priority) ==
    [investment_id |-> <<plan_id, k>>, category |-> category,
     investment_type |-> type, allocation |-> allocation,
     risk_level |-> risk, liquidity |-> liquidity, execution_priority |-> priority]

\* _get_fiat_investment_options
get_fiat_investment_options(amount, plan_id) ==
    IF amount >= DollarsC(1000)
    THEN << recommendation(plan_id, 1, "fiat_savings", "High-Yield Savings Account",
                           RoundHalfUp(amount * 6, 10), "LOW", "HIGH", 1),
            recommendation(plan_id, 2, "fiat_savings", "Treasury Bills (T-Bills)",
                           RoundHalfUp(amount * 4, 10), "VERY_LOW", "MEDIUM", 2) >>
    ELSE << recommendation(plan_id, 1, "fiat_savings", "Money Market Account",
                           amount, "LOW", "HIGH", 1) >>

\* _get_crypto_investment_options
get_crypto_investment_options(amount, plan_id) ==
    IF amount >= DollarsC(500)
    THEN << recommendation(plan_id, 3, "crypto_defi", "Bitcoin (BTC)",
                           RoundHalfUp(amount * 4, 10), "HIGH", "HIGH", 1),
            recommendation(plan_id, 4, "crypto_defi", "Ethereum (ETH)",
                           RoundHalfUp(amount * 3, 10), "HIGH", "HIGH", 2),
            recommendation(plan_id, 5, "crypto_defi", "Stablecoin Yield Farming",
                           RoundHalfUp(amount * 3, 10), "MEDIUM", "MEDIUM", 3) >>
    ELSE << recommendation(plan_id, 3, "crypto_defi", "Diversified Crypto Index",
                           amount, "MEDIUM_HIGH", "HIGH", 1) >>

\* _get_liquidity_investment_options
get_liquidity_investment_options(amount, plan_id) ==
    << recommendation(plan_id, 6, "liquidity_products", "Short-term CDs",
                      RoundHalfUp(amount * 5, 10), "LOW", "LOW", 1),
       recommendation(plan_id, 7, "liquidity_products", "Money Market Funds",
                      RoundHalfUp(amount * 5, 10), "LOW", "HIGH", 2) >>

\* _generate_investment_recommendations
generate_investment_recommendations(categories, plan_id) ==
    (IF categories.fiat_savings.allocation > 0
     THEN get_fiat_investment_options(categories.fiat_savings.allocation, plan_id)
     ELSE <<>>)
    \o (IF categories.crypto_defi.allocation > 0
        THEN get_crypto_investment_options(categories.crypto_defi.allocation, plan_id)
        ELSE <<>>)
    \o (IF categories.liquidity_products.allocation > 0
        THEN get_liquidity_investment_options(categories.liquidity_products.allocation,
                                              plan_id)
        ELSE <<>>)

\* InvestmentAnalyzerTool._determine_approval_requirements
investment_approval_requirements(total_allocated, risk_level, clock) ==
    [requires_review |-> TRUE,
     minimum_approval_level |->
         IF total_allocated > DollarsC(100000) \/ risk_level = "HIGH" THEN "HIGH"
         ELSE IF total_allocated > DollarsC(50000) THEN "MEDIUM"
         ELSE "STANDARD",
     approval_deadline |-> clock + InvestmentDeadlineHours]

\* InvestmentAnalyzerTool._run; plan_id is the uuid4() of the call
InvestmentAnalyzerTool_run(available_funds, preferences, plan_id, clock) ==
    LET reserve_raw == emergency_reserve_raw(available_funds, preferences)
        investable_raw == available_funds * 100 - reserve_raw
        categories == allocate_funds(investable_raw, preferences)
        total_allocated == RoundHalfUp(investable_raw, 100)
        level == risk_profile(preferences).risk_level
    IN  IF available_funds <= 0
        THEN [investment_plan_id |-> plan_id,
              status |-> "NO_FUNDS_AVAILABLE",
              available_funds |-> available_funds,
              allocation_summary |->
                  [total_allocated |-> 0, emergency_reserve |-> 0,
                   investment_categories |->
                       [fiat_savings |-> [allocation |-> 0, percentage |-> 0],
                        crypto_defi |-> [allocation |-> 0, percentage |-> 0],
                        liquidity_products |-> [allocation |-> 0, percentage |-> 0]]],
              recommended_investments |-> <<>>,
              approval_requirements |->
                  [requires_review |-> TRUE, minimum_approval_level |-> "STANDARD",
                   approval_deadline |-> None]]
        ELSE [investment_plan_id |-> plan_id,
              status |-> "PENDING_APPROVAL",
              available_funds |-> available_funds,
              allocation_summary |->
                  [total_allocated |-> total_allocated,
                   emergency_reserve |-> RoundHalfUp(reserve_raw, 100),
                   investment_categories |-> categories],
              recommended_investments |->
                  generate_investment_recommendations(categories, plan_id),
              approval_requirements |->
                  investment_approval_requirements(total_allocated, level, clock)]

-----------------------------------------------------------------------------
(* Inputs *)

\* the amounts a sheet row may carry: $4,000.005
SheetAmounts == {Dollars(4000) + 5}

row(n, amount) ==
    [sheet_name |-> "Sheet1", row_number |-> n + 1, amount |-> amount,
     currency |-> "USD", recipient |-> "ACME ", description |-> "Invoice",
     date |-> "2024-01-01"]

\* an uploaded file: unreadable, or the rows with an amount it holds
Sheets ==
    { [readable |-> FALSE, rows |-> <<>>] }
    \cup { [readable |-> TRUE, rows |-> [i \in DOMAIN f |-> row(i, f[i])]] :
             f \in UNION { [1..n -> SheetAmounts] : n \in 1..MaxRecords } }

\* risk_config.transaction_limits.daily of the request: absent, or $5,000
DailyLimits == {None, Dollars(5000)}

\* an id no uuid4() call returns
UnknownId == 0

\* the ids a client may send: every stored proposal's, and an unknown one
RequestIds == DOMAIN proposal_storage \cup {UnknownId}

\* uuid4(): a value no earlier call returned
uuid4 == uuid_count + 1

-----------------------------------------------------------------------------
(* ExcelParserTool._run: the parsed result of a file (its rows are taken   *)
(* as already normalized; an unreadable file gives the error result)       *)

ExcelParserTool_run(sheet, user_constraints) ==
    IF sheet.readable
    THEN [success |-> TRUE,
          normalized_data |-> sheet.rows,
          metadata |-> [total_records |-> Len(sheet.rows)],
          user_constraints |-> user_constraints]
    ELSE [success |-> FALSE, error |-> "parse_error"]

-----------------------------------------------------------------------------
(* Flask server (src/api_server.py) *)

\* error_response / success_response
error_response(op, proposal_id, message, status_code) ==
    [op |-> op, proposal_id |-> proposal_id, success |-> FALSE,
     status_code |-> status_code, error |-> message, body |-> <<>>]

success_response(op, proposal_id, data) ==
    [op |-> op, proposal_id |-> proposal_id, success |-> TRUE,
     status_code |-> 200, error |-> "", body |-> data]

\* the workflow_inputs['user_constraints'] of submit_request
flask_user_constraints(min_balance_usd, single, daily) ==
    [minimum_balance |-> min_balance_usd, transaction_limit |-> single,
     daily_limit |-> daily]

unchanged_fastapi == UNCHANGED <<workflow_storage, fa_proposal_storage, crew_instances>>
unchanged_flask == UNCHANGED <<proposal_storage, execution_storage>>

\* POST /submit_request
submit_request(sheet, daily, fault) ==
    /\ LET proposal_id == uuid4
           user_constraints == flask_user_constraints(0, None, daily)
           excel_result == ExcelParserTool_run(sheet, user_constraints)
           risk_result == RiskAssessmentTool_run(excel_result, user_constraints)
           payment_proposal ==
               PaymentFormatterTool_run(excel_result, risk_result, user_constraints,
                                        proposal_id, now)
       IN  IF fault = "invalid_request"
           THEN /\ response' = error_response("submit_request", None,
                                              "Missing required fields", 400)
                /\ UNCHANGED <<uuid_count, proposal_storage>>
           ELSE IF fault = "kickoff_raises"
           THEN /\ response' = error_response("submit_request", None,
                                              "Internal server error", 500)
                /\ UNCHANGED <<uuid_count, proposal_storage>>
           ELSE /\ uuid_count' = uuid_count + 1
                /\ proposal_storage' =
                       Put(proposal_storage, proposal_id,
                           [proposal_id |-> proposal_id,
                            status |-> "PENDING_PAYMENT_APPROVAL",
                            excel_data |-> excel_result,
                            risk_assessment |-> risk_result,
                            payment_proposal |-> payment_proposal,
                            user_constraints |-> user_constraints])
                /\ response' = success_response("submit_request", proposal_id,
                                                [proposal_id |-> proposal_id])
    /\ UNCHANGED <<now, execution_storage, threads>>
    /\ unchanged_fastapi

\* the response dict built by get_payment_proposal; KeyError when a key is missing
payment_proposal_view(proposal_data) ==
    IF /\ "metadata" \in DOMAIN proposal_data.excel_data
       /\ "risk_assessment" \in DOMAIN proposal_data.risk_assessment
       /\ "recommendations" \in DOMAIN proposal_data.risk_assessment
       /\ "individual_payments" \in DOMAIN proposal_data.payment_proposal
    THEN [raised |-> FALSE,
          value |->
              [proposal_id |-> proposal_data.proposal_id,
               agent_analysis |->
                   [excel_parsing_summary |-> proposal_data.excel_data.metadata,
                    risk_assessment_summary |->
                        proposal_data.risk_assessment.risk_assessment,
                    recommendations |-> proposal_data.risk_assessment.recommendations],
               payment_proposals |-> proposal_data.payment_proposal.individual_payments,
               risk_assessment |-> proposal_data.risk_assessment]]
    ELSE [raised |-> TRUE]

\* a get_payment_proposal that also marks the proposal as delivered: the
\* variant the read-only property of get_payment_proposal must tell apart
get_payment_proposal_marking(proposal_id) ==
    /\ response' =
         IF proposal_id \notin DOMAIN proposal_storage
         THEN error_response("get_payment_proposal", proposal_id,
                             "Proposal not found", 404)
         ELSE LET proposal_data == proposal_storage[proposal_id]
                  view == payment_proposal_view(proposal_data)
              IN  IF proposal_data.status # "PENDING_PAYMENT_APPROVAL"
                  THEN error_response("get_payment_proposal", proposal_id,
                                      "Invalid proposal status", 400)
                  ELSE IF view.raised
                  THEN error_response("get_payment_proposal", proposal_id,
                                      "Internal server error", 500)
                  ELSE success_response("get_payment_proposal", proposal_id, view.value)
    /\ proposal_storage' =
         IF proposal_id \notin DOMAIN proposal_storage THEN proposal_storage
         ELSE Put(proposal_storage, proposal_id,
                  Put(proposal_storage[proposal_id], "delivered", TRUE))
    /\ UNCHANGED <<now, uuid_count, threads, execution_storage>>
    /\ unchanged_fastapi

\* GET /get_payment_proposal/<proposal_id>
get_payment_proposal(proposal_id) ==
    /\ response' =
         IF proposal_id \notin DOMAIN proposal_storage
         THEN error_response("get_payment_proposal", proposal_id,
                             "Proposal not found", 404)
         ELSE LET proposal_data == proposal_storage[proposal_id]
                  view == payment_proposal_view(proposal_data)
              IN  IF proposal_data.status # "PENDING_PAYMENT_APPROVAL"
                  THEN error_response("get_payment_proposal", proposal_id,
                                      "Invalid proposal status", 400)
                  ELSE IF view.raised
                  THEN error_response("get_payment_proposal", proposal_id,
                                      "Internal server error", 500)
                  ELSE success_response("get_payment_proposal", proposal_id, view.value)
    /\ UNCHANGED <<now, uuid_count, threads>>
    /\ unchanged_flask
    /\ unchanged_fastapi

\* the execution_result dict of submit_payment_approval (lines 245-279)
\* raised is the KeyError of a proposal without payments or sheet metadata
payment_execution_of(proposal_data, approval_decision, approved_payments) ==
    IF /\ "individual_payments" \in DOMAIN proposal_data.payment_proposal
       /\ "metadata" \in DOMAIN proposal_data.excel_data
    THEN LET all_payments == proposal_data.payment_proposal.individual_payments
             executed ==
                 IF approval_decision = "approve_all" THEN all_payments
                 ELSE IF approval_decision = "partial"
                 THEN SelectSeq(all_payments,
                                LAMBDA p : p.payment_id \in approved_payments)
                 ELSE <<>>
             failed ==
                 IF approval_decision = "approve_all" THEN <<>>
                 ELSE IF approval_decision = "partial"
                 THEN SelectSeq(all_payments,
                                LAMBDA p : p.payment_id \notin approved_payments)
                 ELSE all_payments
             total_executed_amount == SumSeq(MapSeq(executed, LAMBDA p : p.amount))
             total_available ==
                 proposal_data.excel_data.metadata.total_records
                     * DollarsC(SimulatedFundsPerRecord)
         IN  [raised |-> FALSE,
              value |->
                  [proposal_id |-> proposal_data.proposal_id,
                   execution_status |->
                       IF approval_decision = "approve_all" THEN "SUCCESS"
                       ELSE IF approval_decision = "partial"
                       THEN (IF failed # <<>> THEN "PARTIAL_SUCCESS" ELSE "SUCCESS")
                       ELSE "FAILURE",
                   approval_decision |-> approval_decision,
                   executed_payments |-> executed,
                   failed_payments |-> failed,
                   total_executed_amount |-> total_executed_amount,
                   remaining_balance |-> total_available - total_executed_amount]]
    ELSE [raised |-> TRUE]

\* a submit_payment_approval whose status write goes to a dict shared by all
\* proposals: the variant the isolation property must tell apart
submit_payment_approval_shared(proposal_id, approval_decision, approved_payments) ==
    /\ IF approval_decision \notin {"approve_all", "reject_all", "partial"}
       THEN /\ response' = error_response("submit_payment_approval", proposal_id,
                                          "Invalid approval decision", 400)
            /\ unchanged_flask
       ELSE IF proposal_id \notin DOMAIN proposal_storage
       THEN /\ response' = error_response("submit_payment_approval", proposal_id,
                                          "Proposal not found", 404)
            /\ unchanged_flask
       ELSE LET proposal_data == proposal_storage[proposal_id]
                execution_result ==
                    payment_execution_of(proposal_data, approval_decision,
                                         approved_payments)
            IN  IF execution_result.raised
                THEN /\ response' = error_response("submit_payment_approval",
                                                   proposal_id,
                                                   "Internal server error", 500)
                     /\ unchanged_flask
                ELSE /\ execution_storage' =
                            Put(execution_storage, proposal_id, execution_result.value)
                     /\ proposal_storage' =
                            [k \in DOMAIN proposal_storage |->
                                IF k = proposal_id
                                THEN Put(Put(proposal_data, "status", "PAYMENT_EXECUTED"),
                                         "payment_execution", execution_result.value)
                                ELSE Put(proposal_storage[k], "status",
                                         "PAYMENT_EXECUTED")]
                     /\ response' =
                            success_response("submit_payment_approval", proposal_id,
                                [execution_status |->
                                     execution_result.value.execution_status])
    /\ UNCHANGED <<now, uuid_count, threads>>
    /\ unchanged_fastapi

\* POST /submit_payment_approval
submit_payment_approval(proposal_id, approval_decision, approved_payments) ==
    /\ IF approval_decision \notin {"approve_all", "reject_all", "partial"}
       THEN /\ response' = error_response("submit_payment_approval", proposal_id,
                                          "Invalid approval decision", 400)
            /\ unchanged_flask
       ELSE IF proposal_id \notin DOMAIN proposal_storage
       THEN /\ response' = error_response("submit_payment_approval", proposal_id,
                                          "Proposal not found", 404)
            /\ unchanged_flask
       ELSE LET proposal_data == proposal_storage[proposal_id]
                execution_result ==
                    payment_execution_of(proposal_data, approval_decision,
                                         approved_payments)
            IN  IF execution_result.raised
                THEN /\ response' = error_response("submit_payment_approval",
                                                   proposal_id,
                                                   "Internal server error", 500)
                     /\ unchanged_flask
                ELSE /\ execution_storage' =
                            Put(execution_storage, proposal_id, execution_result.value)
                     /\ proposal_storage' =
                            Put(proposal_storage, proposal_id,
                                Put(Put(proposal_data, "status", "PAYMENT_EXECUTED"),
                                    "payment_execution", execution_result.value))
                     /\ response' =
                            success_response("submit_payment_approval", proposal_id,
                                [execution_status |->
                                     execution_result.value.execution_status])
    /\ UNCHANGED <<now, uuid_count, threads>>
    /\ unchanged_fastapi

\* GET /payment_execution_result/<proposal_id>
payment_execution_result(proposal_id) ==
    /\ response' =
         IF proposal_id \notin DOMAIN execution_storage
         THEN error_response("payment_execution_result", proposal_id,
                             "Execution result not found", 404)
         ELSE success_response("payment_execution_result", proposal_id,
                               execution_storage[proposal_id])
    /\ UNCHANGED <<now, uuid_count, threads>>
    /\ unchanged_flask
    /\ unchanged_fastapi

\* the investment_preferences get_investment_plan passes to the analyzer
flask_investment_preferences ==
    [risk_tolerance |-> "moderate",
     emergency_reserve_percentage |-> 15,
     minimum_emergency_reserve |-> DollarsC(5000)]

\* the allocations list of the get_investment_plan response
plan_allocations(investment_plan) ==
    MapSeq(Get(investment_plan, "recommended_investments", <<>>),
           LAMBDA r : [type |-> r.investment_type, amount |-> r.allocation,
                       risk_level |-> r.risk_level])

\* GET /get_investment_plan/<proposal_id>
get_investment_plan(proposal_id) ==
    /\ IF proposal_id \notin DOMAIN proposal_storage
       THEN /\ response' = error_response("get_investment_plan", proposal_id,
                                          "Proposal not found", 404)
            /\ UNCHANGED <<proposal_storage, uuid_count>>
       ELSE IF proposal_id \notin DOMAIN execution_storage
       THEN /\ response' = error_response("get_investment_plan", proposal_id,
                                          "Payment execution not completed", 400)
            /\ UNCHANGED <<proposal_storage, uuid_count>>
       ELSE LET proposal_data == proposal_storage[proposal_id]
                remaining_balance == execution_storage[proposal_id].remaining_balance
                investment_plan ==
                    InvestmentAnalyzerTool_run(remaining_balance,
                                               flask_investment_preferences, uuid4, now)
            IN  /\ uuid_count' = uuid_count + 1
                /\ proposal_storage' =
                       Put(proposal_storage, proposal_id,
                           Put(Put(proposal_data, "investment_plan", investment_plan),
                               "status", "PENDING_INVESTMENT_APPROVAL"))
                /\ response' =
                       success_response("get_investment_plan", proposal_id,
                           [remaining_balance |-> remaining_balance,
                            investment_plan_id |-> investment_plan.investment_plan_id,
                            allocations |-> plan_allocations(investment_plan)])
    /\ UNCHANGED <<now, execution_storage, threads>>
    /\ unchanged_fastapi

\* POST /submit_investment_approval
submit_investment_approval(proposal_id, approval_decision) ==
    /\ IF approval_decision \notin {"approve", "reject"}
       THEN /\ response' = error_response("submit_investment_approval", proposal_id,
                                          "Invalid approval decision", 400)
            /\ UNCHANGED proposal_storage
       ELSE IF proposal_id \notin DOMAIN proposal_storage
       THEN /\ response' = error_response("submit_investment_approval", proposal_id,
                                          "Proposal not found", 404)
            /\ UNCHANGED proposal_storage
       ELSE LET proposal_data == proposal_storage[proposal_id]
            IN  IF /\ approval_decision # "reject"
                   /\ "investment_plan" \notin DOMAIN proposal_data
                THEN \* KeyError: 'investment_plan'
                     /\ response' = error_response("submit_investment_approval",
                                                   proposal_id,
                                                   "Internal server error", 500)
                     /\ UNCHANGED proposal_storage
                ELSE LET investment_execution ==
                             [proposal_id |-> proposal_id,
                              execution_status |->
                                  IF approval_decision = "approve" THEN "SUCCESS"
                                  ELSE "FAILURE",
                              approval_decision |-> approval_decision,
                              executed_investments |->
                                  IF approval_decision = "reject" THEN <<>>
                                  ELSE proposal_data.investment_plan.recommended_investments]
                     IN  /\ proposal_storage' =
                                Put(proposal_storage, proposal_id,
                                    Put(Put(proposal_data, "investment_execution",
                                            investment_execution),
                                        "status", "INVESTMENT_EXECUTED"))
                         /\ response' =
                                success_response("submit_investment_approval",
                                    proposal_id,
                                    [execution_status |->
                                         investment_execution.execution_status])
    /\ UNCHANGED <<now, uuid_count, execution_storage, threads>>
    /\ unchanged_fastapi

\* GET /investment_execution_result/<proposal_id>
investment_execution_result(proposal_id) ==
    /\ response' =
         IF proposal_id \notin DOMAIN proposal_storage
         THEN error_response("investment_execution_result", proposal_id,
                             "Proposal not found", 404)
         ELSE IF "investment_execution" \notin DOMAIN proposal_storage[proposal_id]
         THEN error_response("investment_execution_result", proposal_id,
                             "Investment execution not completed", 400)
         ELSE success_response("investment_execution_result", proposal_id,
                               proposal_storage[proposal_id].investment_execution)
    /\ UNCHANGED <<now, uuid_count, threads>>
    /\ unchanged_flask
    /\ unchanged_fastapi

\* time passes
Tick ==
    /\ now + TickHours <= MaxClock
    /\ now' = now + TickHours
    /\ UNCHANGED <<uuid_count, response, threads>>
    /\ unchanged_flask
    /\ unchanged_fastapi

-----------------------------------------------------------------------------
(* The Flask server, one request at a time *)

no_response ==
    [op |-> "none", proposal_id |-> None, success |-> TRUE, status_code |-> 0,
     error |-> "", body |-> <<>>]

Init ==
    /\ now = 0
    /\ uuid_count = 0
    /\ proposal_storage = <<>>
    /\ execution_storage = <<>>
    /\ response = no_response
    /\ workflow_storage = <<>>
    /\ fa_proposal_storage = <<>>
    /\ crew_instances = {}
    /\ threads = <<>>

\* the payment ids a client may name in approved_payments
known_payment_ids(proposal_id) ==
    IF /\ proposal_id \in DOMAIN proposal_storage
       /\ "individual_payments" \in DOMAIN proposal_storage[proposal_id].payment_proposal
    THEN {p.payment_id :
            p \in Range(proposal_storage[proposal_id].payment_proposal.individual_payments)}
    ELSE {}

Next ==
    \/ \E sheet \in Sheets, daily \in DailyLimits,
          fault \in {"none", "invalid_request", "kickoff_raises"} :
           /\ Cardinality(DOMAIN proposal_storage) < MaxWorkflows
           /\ submit_request(sheet, daily, fault)
    \/ \E id \in RequestIds : get_payment_proposal(id)
    \/ \E id \in RequestIds,
          decision \in {"approve_all", "reject_all", "partial", "other"} :
           \E approved \in (IF decision = "partial"
                            THEN SUBSET known_payment_ids(id) ELSE {{}}) :
               submit_payment_approval(id, decision, approved)
    \/ \E id \in RequestIds : payment_execution_result(id)
    \/ \E id \in RequestIds :
           /\ uuid_count - Cardinality(DOMAIN proposal_storage) < MaxPlans
           /\ get_investment_plan(id)
    \/ \E id \in RequestIds, decision \in {"approve", "reject", "other"} :
           submit_investment_approval(id, decision)
    \/ \E id \in RequestIds : investment_execution_result(id)
    \/ Tick

Spec == Init /\ [][Next]_vars

-----------------------------------------------------------------------------
(* ProposalFormatterTool (tools/proposal_formatter_tool.py)                 *)
(* payment_data is [is_dict, value]: crew.py hands the tool whatever the   *)
(* excel parser returned, and str has no .get (AttributeError, caught).    *)

ProposalFormatterTool_run(payment_data, risk_assessment, constraints, clock) ==
    IF ~payment_data.is_dict
    THEN [error |-> "AttributeError", success |-> FALSE,
          metadata |-> [error_type |-> "AttributeError"]]
    ELSE LET data == payment_data.value
             payments ==
                 MapSeq(Get(data, "payments", <<>>),
                        LAMBDA p : [recipient |-> Get(p, "recipient", "Unknown"),
                                    amount |-> Get(p, "amount", 0),
                                    priority |-> Get(p, "priority", "normal")])
             max_transaction == Get(constraints, "max_transaction", None)
             max_total == Get(constraints, "max_total", None)
             total_amount == Get(data, "total_amount", 0)
             limits_satisfied ==
                 /\ \A i \in 1..Len(payments) :
                        max_transaction = None \/ payments[i].amount <= max_transaction
                 /\ (max_total = None \/ total_amount <= max_total)
             risk_level == Get(risk_assessment, "risk_level", "medium")
         IN  [proposal_id |-> <<"PAY", clock>>,
              type |-> "payment_proposal",
              status |-> "pending_approval",
              payment_details |->
                  [total_amount |-> total_amount,
                   payment_count |-> Len(payments),
                   payments |-> payments],
              risk_assessment |->
                  [risk_level |-> risk_level,
                   risk_score |-> Get(risk_assessment, "risk_score", 0)],
              constraints_validation |->
                  [minimum_balance |->
                       [satisfied |-> Get(data, "remaining_balance", 0)
                                          >= Get(constraints, "minimum_balance", 0)],
                   transaction_limits |-> [satisfied |-> limits_satisfied]],
              approval_metadata |->
                  [requires_approval |-> TRUE,
                   approval_level |-> IF risk_level = "low" THEN "standard"
                                      ELSE "enhanced",
                   expires_at |-> clock]]

-----------------------------------------------------------------------------
(* PaymentExecutorTool (tools/payment_executor_tool.py)                     *)

\* module flags: the client utilities are never importable (line 24)
CLIENT_UTILS_AVAILABLE == FALSE
client_available(web3_available) == CLIENT_UTILS_AVAILABLE /\ web3_available

\* _execute_usdt_transfer in simulation mode, the client being available:
\* every item is checked against the same wallet balance
execute_usdt_transfer(sender, recipient, amount, balance, valid_addresses) ==
    IF sender \notin valid_addresses \/ recipient \notin valid_addresses THEN "failed"
    ELSE IF balance < amount THEN "failed"
    ELSE "success"

\* the loop and the totals of PaymentExecutorTool._run (lines 176-258);
\* amounts and balances in cents, fees in thousandths of a cent
execute_payments(proposal_id, custody_wallet, payments, initial_balance, valid_addresses) ==
    LET result(p) ==
            [recipient |-> p.recipient, amount |-> p.amount,
             status |-> execute_usdt_transfer(custody_wallet, p.recipient, p.amount,
                                              initial_balance, valid_addresses),
             processing_fee |-> p.amount * ProcessingFeePerMille]
        payments_processed == MapSeq(payments, result)
        succeeded == SelectSeq(payments_processed, LAMBDA r : r.status = "success")
        total_success == Len(succeeded)
        total_failed == Len(payments_processed) - total_success
        total_amount_processed == SumSeq(MapSeq(succeeded, LAMBDA r : r.amount))
        total_fees == total_amount_processed * ProcessingFeePerMille
        remaining_balance ==
            initial_balance * 1000 - total_amount_processed * 1000 - total_fees
    IN  [proposal_id |-> proposal_id,
         status |-> IF total_failed = 0 THEN "simulation_completed"
                    ELSE IF total_success > 0 THEN "simulation_partial_success"
                    ELSE "simulation_failed",
         payments_processed |-> payments_processed,
         summary |-> [total_payments |-> Len(payments),
                      successful |-> total_success,
                      failed |-> total_failed,
                      total_amount_processed |-> total_amount_processed,
                      processing_fees |-> total_fees],
         balance_info |-> [initial_balance |-> initial_balance,
                           total_debited |-> total_amount_processed * 1000 + total_fees,
                           remaining_balance |-> Max(0, remaining_balance)],
         success |-> TRUE]

\* PaymentExecutorTool._run; chain is the wallet state the client would read
PaymentExecutorTool_run(proposal_id, payment_details, approval_status, chain) ==
    IF approval_status # "approved"
    THEN [success |-> FALSE, proposal_id |-> proposal_id, status |-> "rejected"]
    ELSE IF Get(payment_details, "custody_wallet", "") = ""
    THEN [success |-> FALSE, proposal_id |-> proposal_id, status |-> "error",
          error |-> "Custody wallet not specified in payment details"]
    ELSE IF ~client_available(chain.web3_available)
    THEN \* _check_balance_usdt raises RuntimeError, caught at line 260
         [success |-> FALSE, proposal_id |-> proposal_id, status |-> "error",
          error |-> "Client USDT utilities not available"]
    ELSE execute_payments(proposal_id, payment_details.custody_wallet,
                          Get(payment_details, "payments", <<>>),
                          chain.balance, chain.valid_addresses)

-----------------------------------------------------------------------------
(* TreasuryAgent (crew.py) *)

\* the parameters of ExcelParserTool._run (excel_parser_tool.py line 29)
ExcelParserTool_run_params == {"file_path", "user_constraints"}

\* process_workflow; it calls the parser as _run(file_content=...), a
\* TypeError unless the parser has that parameter
process_workflow(constraints, risk_tolerance, clock) ==
    LET initial == [start_time |-> clock, status |-> "in_progress",
                    constraints |-> constraints, risk_tolerance |-> risk_tolerance,
                    steps_completed |-> <<>>]
        risk_assessment_result ==
            [status |-> "completed",
             minimum_balance_check |-> Get(constraints, "minimum_balance", 0),
             risk_score |-> "medium"]
        payment_proposal ==
            ProposalFormatterTool_run([is_dict |-> FALSE, value |-> <<>>],
                                      risk_assessment_result, constraints, clock)
    IN  IF "file_content" \notin ExcelParserTool_run_params
        THEN Put(Put(initial, "status", "error"), "error", "TypeError")
        ELSE [start_time |-> clock,
              status |-> "awaiting_payment_approval",
              constraints |-> constraints,
              risk_tolerance |-> risk_tolerance,
              steps_completed |->
                  <<"excel_parsing", "risk_assessment", "payment_proposal_generation">>,
              risk_assessment |-> risk_assessment_result,
              payment_proposal |-> payment_proposal,
              requires_approval |-> "payment_proposal"]

\* continue_after_payment_approval on the agent's workflow_state
continue_after_payment_approval(workflow_state, proposal_id, approval_status, chain, clock) ==
    IF approval_status # "approved"
    THEN Put(Put(workflow_state, "status", "rejected"),
             "rejection_point", "payment_proposal")
    ELSE LET payment_proposal == Get(workflow_state, "payment_proposal", <<>>)
             stored_details == Get(payment_proposal, "payment_details", <<>>)
             custody_wallet == Get(workflow_state.constraints, "custody_wallet", "")
             payment_details ==
                 IF "custody_wallet" \notin DOMAIN stored_details /\ custody_wallet # ""
                 THEN Put(stored_details, "custody_wallet", custody_wallet)
                 ELSE stored_details
             payment_result ==
                 PaymentExecutorTool_run(proposal_id, payment_details,
                                         approval_status, chain)
             \* payment_details is the proposal's own dict when it has one
             with_details ==
                 IF "payment_details" \in DOMAIN payment_proposal
                 THEN Put(workflow_state, "payment_proposal",
                          Put(payment_proposal, "payment_details", payment_details))
                 ELSE workflow_state
         IN  Put(Put(Put(Put(with_details, "payment_execution", payment_result),
                         "steps_completed",
                         Append(workflow_state.steps_completed, "payment_execution")),
                     "status", "completed"),
                 "end_time", clock)

-----------------------------------------------------------------------------
(* The FastAPI server (treasury_agent/api_server.py), the one run_server.py *)
(* starts.  workflow_storage[id] is the agent's workflow_state object, and  *)
(* fa_proposal_storage[id] the payment_proposal object inside it.           *)

\* the constraints dict built at lines 124-131
fastapi_constraints(min_balance_usd, custody_wallet) ==
    [minimum_balance |-> min_balance_usd, custody_wallet |-> custody_wallet]

CustodyWallets == {"", "0xCUSTODY"}
Chains == { [web3_available |-> w, balance |-> DollarsC(1000),
             valid_addresses |-> {"0xCUSTODY"}] : w \in BOOLEAN }
FastApiRequestIds == DOMAIN workflow_storage \cup {UnknownId}

fa_submit_request(custody_wallet, fault) ==
    /\ IF fault \in {"invalid_json", "invalid_schema"}
       THEN \* HTTPException(400) raised inside the try, caught at line 179
            /\ response' = error_response("fa_submit_request", None, fault, 500)
            /\ UNCHANGED <<uuid_count>>
            /\ unchanged_fastapi
       ELSE LET proposal_id == uuid4
                constraints == fastapi_constraints(0, custody_wallet)
                workflow_result == process_workflow(constraints, "medium", now)
            IN  /\ uuid_count' = proposal_id
                /\ crew_instances' = crew_instances \cup {proposal_id}
                /\ workflow_storage' = Put(workflow_storage, proposal_id, workflow_result)
                /\ fa_proposal_storage' =
                       IF "payment_proposal" \in DOMAIN workflow_result
                       THEN Put(fa_proposal_storage, proposal_id,
                                workflow_result.payment_proposal)
                       ELSE fa_proposal_storage
                /\ response' = success_response("fa_submit_request", proposal_id,
                                   [message |-> "Proposal generated successfully."])
    /\ UNCHANGED <<now, threads>>
    /\ unchanged_flask

fa_get_payment_proposal(proposal_id) ==
    /\ IF proposal_id \notin DOMAIN fa_proposal_storage
       THEN /\ response' = error_response("fa_get_payment_proposal", proposal_id,
                                          "Payment proposal not found", 404)
            /\ unchanged_fastapi
       ELSE LET stored == fa_proposal_storage[proposal_id]
                proposal == IF "proposal_id" \notin DOMAIN stored
                            THEN Put(stored, "proposal_id", proposal_id)
                            ELSE stored
            IN  /\ fa_proposal_storage' = Put(fa_proposal_storage, proposal_id, proposal)
                /\ workflow_storage' =
                       Put(workflow_storage, proposal_id,
                           Put(workflow_storage[proposal_id], "payment_proposal", proposal))
                /\ response' =
                       success_response("fa_get_payment_proposal", proposal_id,
                           [proposal_id |-> proposal.proposal_id,
                            payment_proposals |->
                                Get(Get(proposal, "payment_details", <<>>),
                                    "payments", <<>>),
                            risk_assessment |-> Get(proposal, "risk_assessment", <<>>)])
                /\ UNCHANGED crew_instances
    /\ UNCHANGED <<now, uuid_count, threads>>
    /\ unchanged_flask

fa_submit_payment_approval(proposal_id, approval_decision, approved_payments, chain) ==
    /\ IF proposal_id \notin DOMAIN workflow_storage
       THEN \* HTTPException(404) raised inside the try, caught at line 241
            /\ response' = error_response("fa_submit_payment_approval", proposal_id,
                                          "Proposal not found", 500)
            /\ unchanged_fastapi
       ELSE IF proposal_id \notin crew_instances
       THEN /\ response' = error_response("fa_submit_payment_approval", proposal_id,
                                          "Crew instance not found", 500)
            /\ unchanged_fastapi
       ELSE LET approval_status == IF approval_decision = "approve_all"
                                   THEN "approved" ELSE "rejected"
                updated_workflow ==
                    continue_after_payment_approval(workflow_storage[proposal_id],
                        proposal_id, approval_status, chain, now)
                execution_status ==
                    Get(Get(updated_workflow, "payment_execution", <<>>),
                        "status", "SUCCESS")
            IN  /\ approval_status = "approved" =>
                       Len(workflow_storage[proposal_id].steps_completed) < MaxSteps
                /\ workflow_storage' = Put(workflow_storage, proposal_id, updated_workflow)
                /\ fa_proposal_storage' =
                       IF proposal_id \in DOMAIN fa_proposal_storage
                       THEN Put(fa_proposal_storage, proposal_id,
                                updated_workflow.payment_proposal)
                       ELSE fa_proposal_storage
                /\ response' =
                       success_response("fa_submit_payment_approval", proposal_id,
                           [execution_status |-> execution_status])
                /\ UNCHANGED crew_instances
    /\ UNCHANGED <<now, uuid_count, threads>>
    /\ unchanged_flask

fa_get_payment_execution_result(proposal_id) ==
    /\ response' =
           IF proposal_id \notin DOMAIN workflow_storage
           THEN error_response("fa_get_payment_execution_result", proposal_id,
                               "Proposal not found", 404)
           ELSE IF "payment_execution" \notin DOMAIN workflow_storage[proposal_id]
           THEN error_response("fa_get_payment_execution_result", proposal_id,
                               "Payment execution not found", 404)
           ELSE success_response("fa_get_payment_execution_result", proposal_id,
                                 workflow_storage[proposal_id].payment_execution)
    /\ UNCHANGED <<now, uuid_count, threads>>
    /\ unchanged_flask
    /\ unchanged_fastapi

fa_get_workflow_status(proposal_id) ==
    /\ response' =
           IF proposal_id \notin DOMAIN workflow_storage
           THEN error_response("fa_get_workflow_status", proposal_id,
                               "Workflow not found", 404)
           ELSE LET workflow == workflow_storage[proposal_id]
                IN  success_response("fa_get_workflow_status", proposal_id,
                        [status |-> Get(workflow, "status", None),
                         steps_completed |-> Get(workflow, "steps_completed", <<>>),
                         requires_approval |-> Get(workflow, "requires_approval", None),
                         start_time |-> Get(workflow, "start_time", None),
                         end_time |-> Get(workflow, "end_time", None)])
    /\ UNCHANGED <<now, uuid_count, threads>>
    /\ unchanged_flask
    /\ unchanged_fastapi

NextFastAPI ==
    \/ \E custody_wallet \in CustodyWallets,
          fault \in {"none", "invalid_json", "invalid_schema", "kickoff_raises"} :
           /\ Cardinality(crew_instances) < MaxWorkflows
           /\ fa_submit_request(custody_wallet, fault)
    \/ \E id \in FastApiRequestIds : fa_get_payment_proposal(id)
    \/ \E id \in FastApiRequestIds,
          decision \in {"approve_all", "reject_all", "partial"},
          chain \in Chains :
           fa_submit_payment_approval(id, decision, {}, chain)
    \/ \E id \in FastApiRequestIds : fa_get_payment_execution_result(id)
    \/ \E id \in FastApiRequestIds : fa_get_workflow_status(id)
    \/ Tick

SpecFastAPI == Init /\ [][NextFastAPI]_vars

-----------------------------------------------------------------------------
(* The Flask server with concurrent requests.  app.run serves each request *)
(* on its own thread; threads[t] is the position of thread t inside        *)
(* submit_payment_approval, whose three writes (api_server.py lines 282,   *)
(* 285, 286) are separate steps on the shared dicts.                       *)

ThreadIds == 1..MaxThreads

set_thread(t, rec) ==
    threads' = [u \in DOMAIN threads \cup {t} |-> IF u = t THEN rec ELSE threads[u]]

thread_done(proposal_id, resp) ==
    [pc |-> "done", proposal_id |-> proposal_id, response |-> resp]

\* lines 224-279: validation and the computation of execution_result
conc_call(t, proposal_id, approval_decision, approved_payments) ==
    /\ t \notin DOMAIN threads
    /\ IF approval_decision \notin {"approve_all", "reject_all", "partial"}
       THEN set_thread(t, thread_done(proposal_id,
                error_response("submit_payment_approval", proposal_id,
                               "Invalid approval decision", 400)))
       ELSE IF proposal_id \notin DOMAIN proposal_storage
       THEN set_thread(t, thread_done(proposal_id,
                error_response("submit_payment_approval", proposal_id,
                               "Proposal not found", 404)))
       ELSE LET execution_result ==
                    payment_execution_of(proposal_storage[proposal_id],
                                         approval_decision, approved_payments)
            IN  IF execution_result.raised
                THEN set_thread(t, thread_done(proposal_id,
                         error_response("submit_payment_approval", proposal_id,
                                        "Internal server error", 500)))
                ELSE set_thread(t, [pc |-> "store_execution",
                                    proposal_id |-> proposal_id,
                                    execution_result |-> execution_result.value])
    /\ UNCHANGED <<now, uuid_count, response>>
    /\ unchanged_flask
    /\ unchanged_fastapi

\* line 282: execution_storage[proposal_id] = execution_result
conc_store_execution(t) ==
    /\ t \in DOMAIN threads
    /\ threads[t].pc = "store_execution"
    /\ execution_storage' =
           Put(execution_storage, threads[t].proposal_id, threads[t].execution_result)
    /\ set_thread(t, [threads[t] EXCEPT !.pc = "set_status"])
    /\ UNCHANGED <<now, uuid_count, response, proposal_storage>>
    /\ unchanged_fastapi

\* line 285: proposal_data['status'] = 'PAYMENT_EXECUTED'
conc_set_status(t) ==
    /\ t \in DOMAIN threads
    /\ threads[t].pc = "set_status"
    /\ proposal_storage' =
           Put(proposal_storage, threads[t].proposal_id,
               Put(proposal_storage[threads[t].proposal_id],
                   "status", "PAYMENT_EXECUTED"))
    /\ set_thread(t, [threads[t] EXCEPT !.pc = "set_payment_execution"])
    /\ UNCHANGED <<now, uuid_count, response, execution_storage>>
    /\ unchanged_fastapi

\* lines 286-292: proposal_data['payment_execution'] = execution_result; return
conc_set_payment_execution(t) ==
    /\ t \in DOMAIN threads
    /\ threads[t].pc = "set_payment_execution"
    /\ proposal_storage' =
           Put(proposal_storage, threads[t].proposal_id,
               Put(proposal_storage[threads[t].proposal_id],
                   "payment_execution", threads[t].execution_result))
    /\ set_thread(t,
           [pc |-> "done", proposal_id |-> threads[t].proposal_id,
            execution_result |-> threads[t].execution_result,
            response |->
                success_response("submit_payment_approval", threads[t].proposal_id,
                    [execution_status |-> threads[t].execution_result.execution_status])])
    /\ UNCHANGED <<now, uuid_count, response, execution_storage>>
    /\ unchanged_fastapi

NextConc ==
    \/ \E sheet \in Sheets, daily \in DailyLimits,
          fault \in {"none", "invalid_request", "kickoff_raises"} :
           /\ Cardinality(DOMAIN proposal_storage) < MaxWorkflows
           /\ submit_request(sheet, daily, fault)
    \/ \E t \in ThreadIds, id \in RequestIds,
          decision \in {"approve_all", "reject_all", "partial", "other"} :
           \E approved \in (IF decision = "partial"
                            THEN SUBSET known_payment_ids(id) ELSE {{}}) :
               conc_call(t, id, decision, approved)
    \/ \E t \in ThreadIds : conc_store_execution(t)
    \/ \E t \in ThreadIds : conc_set_status(t)
    \/ \E t \in ThreadIds : conc_set_payment_execution(t)

SpecConc == Init /\ [][NextConc]_vars

-----------------------------------------------------------------------------
(* Properties of the Flask server (Spec) *)

\* the order of the stored stages
stage_rank(status) ==
    CASE status = "PENDING_PAYMENT_APPROVAL" -> 1
      [] status = "PAYMENT_EXECUTED" -> 2
      [] status = "PENDING_INVESTMENT_APPROVAL" -> 3
      [] status = "INVESTMENT_EXECUTED" -> 4
      [] OTHER -> 0

PaymentDecisions == {"approve_all", "reject_all", "partial"}

\* the step is a valid payment decision call for proposal id
is_payment_decision_step(id) ==
    \E decision \in PaymentDecisions :
        \E approved \in (IF decision = "partial"
                         THEN SUBSET known_payment_ids(id) ELSE {{}}) :
            submit_payment_approval(id, decision, approved)

\* C1: once a payment decision has been processed for a proposal, every later
\* submit_payment_approval for it is answered with an error and leaves the
\* stored execution result and the proposal (its status included) unchanged.
C1_at_most_once_payment_decision ==
    [][ \A id \in DOMAIN execution_storage :
            /\ execution_storage'[id] = execution_storage[id]
            /\ is_payment_decision_step(id) =>
                   /\ ~response'.success
                   /\ proposal_storage'[id] = proposal_storage[id] ]_vars

\* C2: the stored stage of a proposal never moves to an earlier stage of
\* PENDING_PAYMENT_APPROVAL < PAYMENT_EXECUTED < PENDING_INVESTMENT_APPROVAL
\* < INVESTMENT_EXECUTED (the Flask server stores no ERROR stage).
C2_stage_never_regresses ==
    [][ \A id \in DOMAIN proposal_storage :
            stage_rank(proposal_storage'[id].status)
                >= stage_rank(proposal_storage[id].status) ]_vars

\* C3: an investment decision is applied only while the proposal awaits
\* investment approval: a step that records an investment execution starts from
\* PENDING_INVESTMENT_APPROVAL, with a payment execution and a plan stored.
C3_investment_decision_only_when_awaited ==
    [][ \A id \in DOMAIN proposal_storage :
            (/\ "investment_execution" \in DOMAIN proposal_storage'[id]
             /\ proposal_storage'[id] # proposal_storage[id]
             /\ proposal_storage'[id].status = "INVESTMENT_EXECUTED")
            => /\ proposal_storage[id].status = "PENDING_INVESTMENT_APPROVAL"
               /\ id \in DOMAIN execution_storage
               /\ "investment_plan" \in DOMAIN proposal_storage[id] ]_vars

\* the approvers the stored payment proposal asks for
required_approvers_of(id) ==
    Get(Get(proposal_storage[id].payment_proposal, "approval_requirements", <<>>),
        "required_approvers", 1)

\* C4: a proposal that requires more than one approver executes no payment on
\* the first decision call: the step that first stores an execution result with
\* executed payments belongs to a proposal requiring at most one approver.
C4_no_execution_before_quorum ==
    [][ \A id \in DOMAIN proposal_storage :
            (/\ id \notin DOMAIN execution_storage
             /\ id \in DOMAIN execution_storage'
             /\ execution_storage'[id].executed_payments # <<>>)
            => required_approvers_of(id) <= 1 ]_vars

\* the approval deadline of the stored payment proposal (None if it has none)
approval_deadline_of(id) ==
    Get(Get(proposal_storage[id].payment_proposal, "approval_requirements", <<>>),
        "approval_deadline", None)

\* C5: a payment decision that arrives after the approval deadline of a proposal
\* still awaiting payment approval is not applied: no execution result is
\* stored and the proposal does not become PAYMENT_EXECUTED.
C5_no_decision_after_deadline ==
    [][ \A id \in DOMAIN proposal_storage :
            (/\ approval_deadline_of(id) # None
             /\ now > approval_deadline_of(id)
             /\ proposal_storage[id].status = "PENDING_PAYMENT_APPROVAL")
            => /\ id \in DOMAIN execution_storage' => id \in DOMAIN execution_storage
               /\ proposal_storage'[id].status # "PAYMENT_EXECUTED" ]_vars

\* C7: an execution result is stored only for an approved or partly approved
\* proposal: no stored execution result comes from reject_all, and no proposal
\* carries the execution of a reject_all decision.
C7_rejection_stores_no_execution ==
    /\ \A id \in DOMAIN execution_storage :
           execution_storage[id].approval_decision # "reject_all"
    /\ \A id \in DOMAIN proposal_storage :
           "payment_execution" \in DOMAIN proposal_storage[id]
           => proposal_storage[id].payment_execution.approval_decision # "reject_all"

\* C8: the investment plan is derived once: a stored plan is never replaced,
\* and a get_investment_plan answer for a proposal with a stored plan carries
\* that plan's id and leaves the stage alone.
C8_investment_plan_cached ==
    [][ \A id \in DOMAIN proposal_storage :
            "investment_plan" \in DOMAIN proposal_storage[id]
            => /\ proposal_storage'[id].investment_plan
                      = proposal_storage[id].investment_plan
               /\ (/\ response'.op = "get_investment_plan"
                   /\ response'.proposal_id = id
                   /\ response'.success)
                  => /\ response'.body.investment_plan_id
                            = proposal_storage[id].investment_plan.investment_plan_id
                     /\ proposal_storage'[id].status = proposal_storage[id].status ]_vars

\* C9: get_payment_proposal is read-only and repeatable: a step of it changes
\* no stored proposal, execution or plan and draws no id, its successful answer
\* is the view of the stored proposal, and no step of the server changes the
\* view of a stored proposal, so two successful calls return identical proposals.
C9_get_proposal_read_only ==
    [][ /\ (\E id \in RequestIds : get_payment_proposal(id))
            => /\ proposal_storage' = proposal_storage
               /\ execution_storage' = execution_storage
               /\ uuid_count' = uuid_count
               /\ response'.success =>
                      response'.body =
                          payment_proposal_view(
                              proposal_storage[response'.proposal_id]).value
        /\ \A id \in DOMAIN proposal_storage :
               payment_proposal_view(proposal_storage'[id])
                   = payment_proposal_view(proposal_storage[id]) ]_vars

\* get_payment_proposal has returned a stored proposal with its payments
C9_witness_proposal_returned ==
    /\ response.op = "get_payment_proposal"
    /\ response.success
    /\ response.body.payment_proposals # <<>>

-----------------------------------------------------------------------------
(* Properties of the FastAPI server (SpecFastAPI) *)

\* C6: a partial decision executes the approved items and fails the rest, and
\* ends as approved when no item is excluded: on a known workflow it is never
\* handled as a rejection of the whole proposal.
C6_partial_is_not_rejection ==
    [][ \A id \in DOMAIN workflow_storage, chain \in Chains :
            fa_submit_payment_approval(id, "partial", {}, chain)
            => /\ workflow_storage'[id].status # "rejected"
               /\ "rejection_point" \notin DOMAIN workflow_storage'[id] ]_vars

-----------------------------------------------------------------------------
(* Properties of the Flask server under concurrent requests (SpecConc) *)

finished(t) == t \in DOMAIN threads /\ threads[t].pc = "done"
applied(t) == finished(t) /\ threads[t].response.success

\* C10: of the concurrent payment decisions on one proposal exactly one is
\* applied, and what is stored is the result of that one call: never two
\* successful answers, and once all calls returned the execution store and the
\* proposal hold the same execution result.
C10_single_writer ==
    /\ \A t, u \in ThreadIds :
           (t # u /\ applied(t) /\ applied(u))
           => threads[t].proposal_id # threads[u].proposal_id
    /\ (\A t \in DOMAIN threads : finished(t))
       => \A id \in DOMAIN execution_storage :
              proposal_storage[id].payment_execution = execution_storage[id]

-----------------------------------------------------------------------------
(* Several workflows side by side (SpecIsolation).  A process runs one of   *)
(* the two servers, so a behaviour ingests through one of them only; the    *)
(* payload is fixed to one sheet, the ids and the order of the calls vary.  *)

IsolationSheet == [readable |-> TRUE, rows |-> <<row(1, Dollars(4000) + 5)>>]

\* the process runs the Flask server / the FastAPI server
flask_process == crew_instances = {}
fastapi_process == proposal_storage = <<>>

NextIsolation ==
    \/ /\ flask_process
       /\ Cardinality(DOMAIN proposal_storage) < MaxTenants
       /\ submit_request(IsolationSheet, Dollars(5000), "none")
    \/ \E id \in RequestIds : flask_process /\ get_payment_proposal(id)
    \/ \E id \in RequestIds, decision \in {"approve_all", "reject_all"} :
           flask_process /\ submit_payment_approval(id, decision, {})
    \/ \E id \in RequestIds :
           /\ flask_process
           /\ uuid_count - Cardinality(DOMAIN proposal_storage) < MaxPlans
           /\ get_investment_plan(id)
    \/ \E id \in RequestIds, decision \in {"approve", "reject"} :
           flask_process /\ submit_investment_approval(id, decision)
    \/ \E custody_wallet \in CustodyWallets :
           /\ fastapi_process
           /\ Cardinality(crew_instances) < MaxTenants
           /\ fa_submit_request(custody_wallet, "none")
    \/ \E id \in FastApiRequestIds, decision \in {"approve_all", "reject_all"},
          chain \in Chains :
           fastapi_process /\ fa_submit_payment_approval(id, decision, {}, chain)

SpecIsolation == Init /\ [][NextIsolation]_vars

\* everything either server stores under id
stored_state(id) ==
    <<Get(proposal_storage, id, None), Get(execution_storage, id, None),
      Get(workflow_storage, id, None), Get(fa_proposal_storage, id, None)>>

\* C11: an operation applied to one workflow id leaves the stored state of
\* every other id unchanged: what is stored under an existing id (stage,
\* proposal, execution result, plan, steps_completed) changes only in a step
\* of an operation called with that id.
C11_workflow_isolation ==
    [][ \A b \in DOMAIN proposal_storage \cup DOMAIN workflow_storage :
            stored_state(b)' # stored_state(b) => response'.proposal_id = b ]_vars

\* a workflow ingested second went through its whole lifecycle while the
\* first one still awaits its payment decision
C11_witness_two_workflows ==
    \E a, b \in DOMAIN proposal_storage :
        /\ b < a
        /\ proposal_storage[a].status = "INVESTMENT_EXECUTED"
        /\ "investment_plan" \in DOMAIN proposal_storage[a]
        /\ proposal_storage[b].status = "PENDING_PAYMENT_APPROVAL"

-----------------------------------------------------------------------------
(* Failures and unknown ids *)

\* a tool of the ingest reported an error result for the stored proposal
ingest_tool_failed(id) ==
    \/ ~Get(proposal_storage[id].risk_assessment, "success", TRUE)
    \/ Get(proposal_storage[id].payment_proposal, "status", "") = "ERROR"

\* C12 (Spec): a workflow whose risk scoring or proposal formatting failed
\* during ingest is in an error stage, never awaiting payment approval, and no
\* payment decision executes anything for it.
C12_failed_ingest_is_error ==
    \A id \in DOMAIN proposal_storage :
        ingest_tool_failed(id)
        => /\ stage_rank(proposal_storage[id].status) = 0
           /\ id \in DOMAIN execution_storage
              => execution_storage[id].executed_payments = <<>>

\* C13 (SpecFastAPI): an operation called with an id that was never ingested
\* is answered NotFound (404), not as an internal error, and stores nothing.
C13_unknown_id_not_found ==
    (/\ response.op \in {"fa_get_payment_proposal", "fa_submit_payment_approval",
                         "fa_get_payment_execution_result", "fa_get_workflow_status"}
     /\ response.proposal_id \notin DOMAIN workflow_storage)
    => /\ response.status_code = 404
       /\ response.proposal_id \notin DOMAIN fa_proposal_storage

-----------------------------------------------------------------------------
(* The Flask server on sheets of mixed amounts and currencies              *)

\* (amount, currency) of the rows a ledger sheet may hold
LedgerEntries ==
    { <<Dollars(4000) + 5, "USD">>, <<Dollars(4000) + 5, "EUR">>,
      <<Dollars(150000), "USD">>, <<Dollars(510000), "EUR">> }

ledger_row(n, entry) == [row(n, entry[1]) EXCEPT !.currency = entry[2]]

LedgerSheets ==
    { [readable |-> TRUE, rows |-> [i \in DOMAIN f |-> ledger_row(i, f[i])]] :
        f \in UNION { [1..n -> LedgerEntries] : n \in 1..MaxRecords } }

\* risk_config.transaction_limits.daily: absent, $5,000 or $1,000,000
LedgerDailyLimits == {None, Dollars(5000), Dollars(1000000)}

NextLedger ==
    \/ \E sheet \in LedgerSheets, daily \in LedgerDailyLimits :
          /\ Cardinality(DOMAIN proposal_storage) < MaxWorkflows
          /\ submit_request(sheet, daily, "none")
    \/ \E id \in RequestIds : get_payment_proposal(id)
    \/ \E id \in RequestIds, decision \in PaymentDecisions :
          \E approved \in SUBSET known_payment_ids(id) :
              submit_payment_approval(id, decision, approved)
    \/ \E id \in RequestIds : payment_execution_result(id)

SpecLedger == Init /\ [][NextLedger]_vars

-----------------------------------------------------------------------------
(* C14: the remaining balance recorded in an execution result is the       *)
(* simulated initial balance less the executed amount and the processing   *)
(* fees on it, clamped at 0, and so is never negative.                     *)

\* the processing fee on an amount, in cents
processing_fee(amount) == RoundHalfUp(amount * ProcessingFeePerMille, 1000)

C14_remaining_balance_clamped ==
    \A id \in DOMAIN execution_storage :
        LET result == execution_storage[id]
            initial_balance ==
                proposal_storage[id].excel_data.metadata.total_records
                    * DollarsC(SimulatedFundsPerRecord)
        IN  /\ result.remaining_balance >= 0
            /\ result.remaining_balance =
                   Max(0, initial_balance - result.total_executed_amount
                            - processing_fee(result.total_executed_amount))

-----------------------------------------------------------------------------
(* C15: in every generated proposal each payment id is in exactly one      *)
(* batch, the payments of a batch share the batch's (currency, priority),  *)
(* a batch's total_amount is the sum of its payments' amounts, and the     *)
(* batch totals add up to the sum of all payment amounts of the proposal.  *)

\* the stored proposals the formatter generated batches for
generated_proposals ==
    { id \in DOMAIN proposal_storage :
        "payment_batches" \in DOMAIN proposal_storage[id].payment_proposal }

batch_members(payments, batch) ==
    SelectSeq(payments, LAMBDA p : p.payment_id \in Range(batch.payments))

C15_batch_conservation ==
    \A id \in generated_proposals :
        LET proposal == proposal_storage[id].payment_proposal
            payments == proposal.individual_payments
            batches == proposal.payment_batches
        IN  /\ \A i \in DOMAIN payments :
                   Cardinality({ b \in DOMAIN batches :
                       \E j \in DOMAIN batches[b].payments :
                           batches[b].payments[j] = payments[i].payment_id }) = 1
            /\ \A b \in DOMAIN batches :
                   /\ Cardinality(Range(batches[b].payments)) = Len(batches[b].payments)
                   /\ \A i \in DOMAIN payments :
                          payments[i].payment_id \in Range(batches[b].payments)
                              => batch_key(payments[i])
                                     = <<batches[b].currency, batches[b].priority>>
                   /\ batches[b].total_amount =
                          SumSeq(MapSeq(batch_members(payments, batches[b]),
                                        LAMBDA p : p.amount))
            /\ SumSeq(MapSeq(batches, LAMBDA b : b.total_amount))
                   = SumSeq(MapSeq(payments, LAMBDA p : p.amount))

\* a proposal of two payments in one batch is stored
C15_witness_shared_batch ==
    \E id \in generated_proposals :
        \E b \in DOMAIN proposal_storage[id].payment_proposal.payment_batches :
            /\ proposal_storage[id].payment_proposal.payment_batches[b].payment_count = 2
            /\ Len(proposal_storage[id].payment_proposal.individual_payments) = 2

-----------------------------------------------------------------------------
(* C16: in every payment execution the processed total is the sum of the   *)
(* amounts of the executed items, and the recorded fee total is both the   *)
(* fee rate times the processed total and the sum of the per-item fees of  *)
(* the item results; failed items add to neither.                          *)

C16_fee_accounting ==
    \A id \in DOMAIN execution_storage :
        LET result == execution_storage[id]
            executed == result.executed_payments
        IN  /\ result.total_executed_amount = SumSeq(MapSeq(executed, LAMBDA p : p.amount))
            /\ \A i \in DOMAIN result.failed_payments :
                   result.failed_payments[i] \notin Range(executed)
            /\ "processing_fees" \in DOMAIN result
            /\ result.processing_fees = processing_fee(result.total_executed_amount)
            /\ \A i \in DOMAIN executed : "processing_fee" \in DOMAIN executed[i]
            /\ result.processing_fees
                   = SumSeq(MapSeq(executed, LAMBDA p : p.processing_fee))

-----------------------------------------------------------------------------
(* The investment analyzer called on its own (InvestmentAnalyzerTool._run  *)
(* as a crew tool), on funds and preferences of the caller's choosing      *)

\* available_funds in cents: an overdrawn balance, nothing, one cent,
\* $400, $2,000, $20,000
PlannerFunds ==
    { -DollarsC(140000), 0, 1, DollarsC(400), DollarsC(2000), DollarsC(20000) }

\* custom_allocations in percent: absent, all zero, crypto only, all three
PlannerCustomAllocations ==
    { <<>>,
      [fiat_percentage |-> 0, crypto_percentage |-> 0, liquidity_percentage |-> 0],
      [crypto_percentage |-> 60],
      [fiat_percentage |-> 40, crypto_percentage |-> 40, liquidity_percentage |-> 40] }

PlannerPreferences ==
    { IF custom = <<>> THEN [risk_tolerance |-> tolerance]
      ELSE [risk_tolerance |-> tolerance, custom_allocations |-> custom] :
        tolerance \in {"conservative", "moderate", "aggressive"},
        custom \in PlannerCustomAllocations }

\* one call of InvestmentAnalyzerTool._run; the plan keeps the preferences
\* it was made for (its user_preferences entry)
analyze_investment(available_funds, user_investment_preferences) ==
    /\ uuid_count' = uuid_count + 1
    /\ response' =
         success_response("analyze_investment", None,
             Put(InvestmentAnalyzerTool_run(available_funds,
                                            user_investment_preferences, uuid4, now),
                 "user_preferences", user_investment_preferences))
    /\ UNCHANGED <<now, threads>>
    /\ unchanged_flask
    /\ unchanged_fastapi

NextPlanner ==
    \E funds \in PlannerFunds, preferences \in PlannerPreferences :
        /\ uuid_count < MaxPlans
        /\ analyze_investment(funds, preferences)

SpecPlanner == Init /\ [][NextPlanner]_vars

\* the plan of the last analyzer call
plan_made == response.op = "analyze_investment"

-----------------------------------------------------------------------------
(* C17: for funds <= 0 and any preferences the plan has status             *)
(* NO_FUNDS_AVAILABLE, no recommendations and a zero total allocation; for *)
(* funds > 0 the status is not NO_FUNDS_AVAILABLE and the plan has at      *)
(* least one recommendation.                                               *)

C17_no_funds_short_circuit ==
    plan_made =>
        LET plan == response.body
        IN  IF plan.available_funds <= 0
            THEN /\ plan.status = "NO_FUNDS_AVAILABLE"
                 /\ plan.recommended_investments = <<>>
                 /\ plan.allocation_summary.total_allocated = 0
            ELSE /\ plan.status # "NO_FUNDS_AVAILABLE"
                 /\ plan.recommended_investments # <<>>

-----------------------------------------------------------------------------
(* C18: for every plan with positive funds, whatever the risk tolerance    *)
(* and the custom percentages, the three percentages the allocation uses   *)
(* sum to 1 after normalization and the three category allocations sum to  *)
(* the investable funds (to the cent the plan records them in).            *)

\* the percentages _allocate_funds multiplies the investable funds by, as
\* numerators over a common divisor
normalized_percentages(preferences) ==
    LET profile == risk_profile(preferences)
        custom_allocations == Get(preferences, "custom_allocations", <<>>)
        fiat == Get(custom_allocations, "fiat_percentage", profile.fiat_allocation)
        crypto == Get(custom_allocations, "crypto_percentage", profile.crypto_allocation)
        liquidity == Get(custom_allocations, "liquidity_percentage",
                         profile.liquidity_allocation)
        total_percentage == fiat + crypto + liquidity
    IN  [fiat |-> fiat, crypto |-> crypto, liquidity |-> liquidity,
         divisor |-> IF total_percentage > 0 THEN total_percentage ELSE 100]

C18_allocation_normalized ==
    (plan_made /\ response.body.available_funds > 0) =>
        LET plan == response.body
            used == normalized_percentages(plan.user_preferences)
            categories == plan.allocation_summary.investment_categories
            allocated == categories.fiat_savings.allocation
                           + categories.crypto_defi.allocation
                           + categories.liquidity_products.allocation
        IN  /\ used.fiat + used.crypto + used.liquidity = used.divisor
            /\ allocated - plan.allocation_summary.total_allocated \in {-1, 0, 1}

-----------------------------------------------------------------------------
(* C19: when submit_request returns success, the workflow it stored has    *)
(* steps_completed exactly excel_parsing, risk_assessment,                 *)
(* payment_proposal_generation, awaits the payment approval and has a      *)
(* stored proposal; a workflow a step failed in has status error and the   *)
(* steps finished before the failure, a prefix of the three.               *)

ingest_steps == <<"excel_parsing", "risk_assessment", "payment_proposal_generation">>

is_prefix(s, t) == Len(s) <= Len(t) /\ s = SubSeq(t, 1, Len(s))

C19_synchronous_ingest ==
    (response.op = "fa_submit_request" /\ response.proposal_id \in DOMAIN workflow_storage) =>
        LET workflow == workflow_storage[response.proposal_id]
        IN  /\ workflow.status \in {"awaiting_payment_approval", "error"}
            /\ workflow.status = "error" => is_prefix(workflow.steps_completed, ingest_steps)
            /\ response.success =>
                   /\ workflow.steps_completed = ingest_steps
                   /\ workflow.status = "awaiting_payment_approval"
                   /\ response.proposal_id \in DOMAIN fa_proposal_storage

-----------------------------------------------------------------------------
(* C20: in every generated proposal a manual review is required iff the    *)
(* risk level is HIGH or CRITICAL, or the total exceeds the                *)
(* auto-approval limit (100000), or a flagged transaction or a constraint  *)
(* violation exists; required_approvers is 3 iff the risk is CRITICAL or   *)
(* the total exceeds the escalation threshold (500000), otherwise 2 iff    *)
(* the risk is HIGH, otherwise 1; the approval deadline is set iff a       *)
(* manual review is required. A single record of 150000 with a daily limit *)
(* of 1000000 yields MEDIUM risk, one flagged transaction, a manual review *)
(* and 1 required approver.                                                *)

\* the rules on the approval requirements of one stored proposal; limits of
\* the defaults, totals in cents
approval_rules(id) ==
    LET risk_data == proposal_storage[id].risk_assessment
        proposal == proposal_storage[id].payment_proposal
        reqs == proposal.approval_requirements
        risk_level == risk_data.risk_assessment.risk_level
        total == SumSeq(MapSeq(proposal.individual_payments, LAMBDA p : p.amount))
        flagged == Get(risk_data, "flagged_transactions", <<>>)
        violations == Get(Get(risk_data, "risk_factors", <<>>),
                          "constraint_violations", <<>>)
    IN  /\ reqs.requires_manual_review <=>
               \/ risk_level \in {"HIGH", "CRITICAL"}
               \/ total > DollarsC(AutoApprovalLimitDefault)
               \/ flagged # <<>> \/ violations # <<>>
        /\ reqs.required_approvers = 3 <=>
               risk_level = "CRITICAL" \/ total > DollarsC(EscalationThresholdDefault)
        /\ reqs.required_approvers # 3 =>
               /\ reqs.required_approvers = 2 <=> risk_level = "HIGH"
               /\ reqs.required_approvers # 2 => reqs.required_approvers = 1
        /\ reqs.approval_deadline # None <=> reqs.requires_manual_review

\* the stored proposals made from one record of 150000 under a daily limit
\* of 1000000
scenario_A ==
    { id \in generated_proposals :
        /\ Len(proposal_storage[id].excel_data.normalized_data) = 1
        /\ proposal_storage[id].excel_data.normalized_data[1].amount = Dollars(150000)
        /\ proposal_storage[id].user_constraints.daily_limit = Dollars(1000000) }

-----------------------------------------------------------------------------
(* The risk assessment called on its own (RiskAssessmentTool._run as a     *)
(* crew tool), on records and constraints of the caller's choosing         *)

\* (amount, currency, description) of the rows a record set may hold
RiskEntries ==
    { <<Dollars(4000) + 5, "USD", "Invoice">>,
      <<Dollars(150000), "USD", "Invoice">>,
      <<Dollars(150000), "USD", "">>,
      <<Dollars(510000), "EUR", "Invoice">> }

risk_row(n, entry) ==
    [row(n, entry[1]) EXCEPT !.currency = entry[2], !.description = entry[3]]

RiskRecordSets ==
    { [i \in DOMAIN f |-> risk_row(i, f[i])] :
        f \in UNION { [1..n -> RiskEntries] : n \in 1..MaxRecords } }

\* high_value_threshold: absent (-> 100000), $100, $200,000
HighValueThresholds == {None, Dollars(100), Dollars(200000)}

\* a constraints dict with the keys that were given (None: key absent)
constraints_of(high_value_threshold, daily_limit, transaction_limit, minimum_balance) ==
    LET given == { p \in { <<"high_value_threshold", high_value_threshold>>,
                           <<"daily_limit", daily_limit>>,
                           <<"transaction_limit", transaction_limit>>,
                           <<"minimum_balance", minimum_balance>> } : p[2] # None }
    IN  [k \in {p[1] : p \in given} |-> (CHOOSE p \in given : p[1] = k)[2]]

\* (transaction_limit, minimum_balance): neither, a $100,000 limit, a
\* $5,000 minimum
RecordLimits == { <<None, None>>, <<Dollars(100000), None>>, <<None, Dollars(5000)>> }

RiskConstraints ==
    { constraints_of(t, d, limits[1], limits[2]) :
        t \in HighValueThresholds, d \in {None, Dollars(5000)},
        limits \in RecordLimits }

\* one call of RiskAssessmentTool._run, kept with the arguments of the call
assess_risk(records, user_constraints) ==
    /\ response' =
         success_response("assess_risk", None,
             [report |-> RiskAssessmentTool_run([normalized_data |-> records],
                                                user_constraints),
              records |-> records,
              user_constraints |-> user_constraints])
    /\ UNCHANGED <<now, uuid_count, threads>>
    /\ unchanged_flask
    /\ unchanged_fastapi

NextRisk ==
    \E records \in RiskRecordSets, user_constraints \in RiskConstraints :
        assess_risk(records, user_constraints)

SpecRisk == Init /\ [][NextRisk]_vars

\* the report of the last risk assessment call
risk_assessed == response.op = "assess_risk"

-----------------------------------------------------------------------------
(* C21: for every non-empty record set the scorer reports on, with S the   *)
(* sum of the scores of the recorded amount, pattern and compliance risk   *)
(* factors plus 2.0 per recorded constraint violation, overall_risk_score  *)
(* is min(10, S) and within [0, 10], risk_level is LOW for S < 2, MEDIUM   *)
(* for 2 <= S < 4, HIGH for 4 <= S < 7 and CRITICAL for S >= 7, and        *)
(* compliance_status is NON_COMPLIANT iff a constraint violation was       *)
(* recorded. Scores in tenths.                                             *)

\* S of a report, from the factors and violations it records
summed_score(report) ==
    SumSeq(MapSeq(report.risk_factors.amount_risks, LAMBDA f : f.risk_score))
    + SumSeq(MapSeq(report.risk_factors.pattern_risks, LAMBDA f : f.risk_score))
    + SumSeq(MapSeq(report.risk_factors.compliance_risks, LAMBDA f : f.risk_score))
    + 20 * Len(report.risk_factors.constraint_violations)

C21_risk_score_and_level ==
    (risk_assessed /\ response.body.report.success) =>
        LET report == response.body.report
            S == summed_score(report)
            assessment == report.risk_assessment
        IN  /\ assessment.overall_risk_score = Min(100, S)
            /\ assessment.overall_risk_score \in 0..100
            /\ S < 20 <=> assessment.risk_level = "LOW"
            /\ (20 <= S /\ S < 40) <=> assessment.risk_level = "MEDIUM"
            /\ (40 <= S /\ S < 70) <=> assessment.risk_level = "HIGH"
            /\ S >= 70 <=> assessment.risk_level = "CRITICAL"
            /\ assessment.compliance_status = "NON_COMPLIANT"
                   <=> report.risk_factors.constraint_violations # <<>>
            /\ assessment.compliance_status \in {"NON_COMPLIANT", "COMPLIANT"}

\* a report whose summed score is above 10 and is clamped
C21_witness_clamped ==
    /\ risk_assessed
    /\ response.body.report.success
    /\ summed_score(response.body.report) > 100
    /\ response.body.report.risk_assessment.overall_risk_score = 100
    /\ response.body.report.risk_assessment.risk_level = "CRITICAL"

-----------------------------------------------------------------------------
(* C22: a daily limit absent from the constraints is no limit: whatever    *)
(* the total, the report has neither the aggregate-amount risk factor nor  *)
(* a daily-limit violation; an absent transaction limit gives no           *)
(* per-transaction-limit violation.                                        *)

factor_types(factors) == {factors[i].type : i \in DOMAIN factors}

C22_absent_limit_is_no_limit ==
    risk_assessed =>
        LET report == response.body.report
            user_constraints == response.body.user_constraints
        IN  /\ report.success
            /\ "daily_limit" \notin DOMAIN user_constraints =>
                   /\ "AGGREGATE_AMOUNT_RISK"
                          \notin factor_types(report.risk_factors.amount_risks)
                   /\ "EXCEEDS_DAILY_LIMIT"
                          \notin factor_types(report.risk_factors.constraint_violations)
            /\ "transaction_limit" \notin DOMAIN user_constraints =>
                   "EXCEEDS_TRANSACTION_LIMIT"
                       \notin factor_types(report.risk_factors.constraint_violations)

-----------------------------------------------------------------------------
(* C23: for every record set and every two high-value thresholds           *)
(* t1 <= t2, the other constraints equal, the overall risk score under t1  *)
(* is at least the score under t2, and the transactions flagged under t2   *)
(* are among those flagged under t1.                                       *)

\* the constraints with another high_value_threshold (None: key absent)
with_threshold(user_constraints, threshold) ==
    IF threshold = None
    THEN [k \in DOMAIN user_constraints \ {"high_value_threshold"} |-> user_constraints[k]]
    ELSE Put(user_constraints, "high_value_threshold", threshold)

\* the threshold _analyze_amount_risks uses
threshold_used(user_constraints) ==
    Get(user_constraints, "high_value_threshold", Dollars(HighValueThresholdDefault))

C23_threshold_monotone ==
    risk_assessed =>
        \A threshold \in HighValueThresholds :
            LET user_constraints == response.body.user_constraints
                other_constraints == with_threshold(user_constraints, threshold)
                report == response.body.report
                other == RiskAssessmentTool_run([normalized_data |-> response.body.records],
                                                other_constraints)
            IN  threshold_used(user_constraints) <= threshold_used(other_constraints) =>
                    /\ report.risk_assessment.overall_risk_score
                           >= other.risk_assessment.overall_risk_score
                    /\ Range(other.flagged_transactions)
                           \subseteq Range(report.flagged_transactions)

\* a report under the $100 threshold that scores higher and flags more than
\* the same records under the $200,000 threshold
C23_witness_lower_threshold_scores_higher ==
    /\ risk_assessed
    /\ threshold_used(response.body.user_constraints) = Dollars(100)
    /\ LET other == RiskAssessmentTool_run(
                        [normalized_data |-> response.body.records],
                        with_threshold(response.body.user_constraints, Dollars(200000)))
       IN  /\ response.body.report.risk_assessment.overall_risk_score
                  > other.risk_assessment.overall_risk_score
           /\ Range(other.flagged_transactions) # Range(response.body.report.flagged_transactions)
           /\ other.flagged_transactions # <<>>

-----------------------------------------------------------------------------
(* HitlInterfaceTool (tools/hitl_interface_tool.py)                         *)
(* Amounts in cents, the clock in hours.                                   *)

HitlTimeoutMinutes == 1440
HitlApprovalAmount == 100000       \* dollars
HitlSecondApproverAmount == 50000  \* dollars

\* _determine_urgency
determine_urgency(proposal) ==
    IF Get(Get(proposal, "approval_requirements", <<>>), "escalation_required", FALSE)
    THEN "CRITICAL"
    ELSE IF Get(Get(proposal, "summary", <<>>), "risk_level", "") \in {"HIGH", "CRITICAL"}
    THEN "HIGH"
    ELSE IF Get(Get(proposal, "approval_requirements", <<>>), "requires_manual_review", FALSE)
    THEN "MEDIUM"
    ELSE "NORMAL"

\* the proposal_summary of _format_payment_proposal
hitl_payment_summary(proposal) ==
    LET summary == Get(proposal, "summary", <<>>)
    IN  [proposal_id |-> Get(proposal, "proposal_id", None),
         total_payments |-> Get(summary, "total_payments", 0),
         total_amount |-> Get(summary, "total_amount", 0),
         risk_level |-> Get(summary, "risk_level", "UNKNOWN"),
         flagged_payments |-> Get(summary, "flagged_payments", 0),
         requires_manual_review |->
             Get(Get(proposal, "approval_requirements", <<>>),
                 "requires_manual_review", FALSE)]

\* the proposal_summary of _format_investment_proposal
hitl_investment_summary(proposal) ==
    LET allocation_summary == Get(proposal, "allocation_summary", <<>>)
    IN  [investment_plan_id |-> Get(proposal, "investment_plan_id", None),
         available_funds |-> Get(proposal, "available_funds", 0),
         total_allocated |-> Get(allocation_summary, "total_allocated", 0),
         emergency_reserve |-> Get(allocation_summary, "emergency_reserve", 0),
         number_of_investments |-> Len(Get(proposal, "recommended_investments", <<>>)),
         requires_high_approval |->
             Get(Get(proposal, "approval_requirements", <<>>),
                 "minimum_approval_level", "") = "HIGH"]

\* HitlInterfaceTool._determine_approval_requirements: required_approvals
hitl_required_approvals(proposal, checkpoint_type) ==
    LET approval_reqs == Get(proposal, "approval_requirements", <<>>)
        total_amount == Get(Get(proposal, "summary", <<>>), "total_amount", 0)
        risk_level == Get(Get(proposal, "summary", <<>>), "risk_level", "LOW")
        approval_level == Get(approval_reqs, "minimum_approval_level", "STANDARD")
        by_type ==
            IF checkpoint_type = "payment_approval"
            THEN (IF risk_level \in {"HIGH", "CRITICAL"}
                     \/ total_amount > DollarsC(HitlApprovalAmount)
                  THEN 2
                  ELSE IF total_amount > DollarsC(HitlSecondApproverAmount) THEN 2
                  ELSE 1)
            ELSE IF checkpoint_type = "investment_approval"
            THEN (IF approval_level = "HIGH" THEN 2 ELSE 1)
            ELSE 1
    IN  IF Get(approval_reqs, "escalation_required", FALSE)
        THEN Max(by_type, 3)
        ELSE by_type

\* HitlInterfaceTool._run; checkpoint_id and checkpoint_id + 1 are the
\* uuid4() values of the call
HitlInterfaceTool_run(proposal, checkpoint_type, checkpoint_id, clock) ==
    IF checkpoint_type \notin {"payment_approval", "investment_approval"}
    THEN [checkpoint_id |-> checkpoint_id + 1,
          checkpoint_type |-> checkpoint_type,
          status |-> "ERROR",
          error |-> "ValueError",
          created_at |-> clock]
    ELSE [checkpoint_id |-> checkpoint_id,
          checkpoint_type |-> checkpoint_type,
          status |-> "PENDING_REVIEW",
          created_at |-> clock,
          timeout_deadline |-> clock + HitlTimeoutMinutes \div 60,
          proposal_summary |->
              IF checkpoint_type = "payment_approval"
              THEN hitl_payment_summary(proposal)
              ELSE hitl_investment_summary(proposal),
          urgency |-> determine_urgency(proposal),
          approval_workflow |->
              [required_approvals |-> hitl_required_approvals(proposal, checkpoint_type),
               current_approvals |-> 0,
               approval_history |-> <<>>,
               escalation_triggered |-> FALSE],
          audit_trail |->
              << [timestamp |-> clock, action |-> "CHECKPOINT_CREATED",
                  user_id |-> "system"] >>,
          notification_payload |->
              [notification_id |-> checkpoint_id + 1,
               checkpoint_id |-> checkpoint_id,
               expires_at |-> clock + HitlTimeoutMinutes \div 60]]

-----------------------------------------------------------------------------
(* The Flask payment routes with the HITL tool called on stored proposals  *)

CheckpointTypes == {"payment_approval", "approval"}

\* one call of HitlInterfaceTool._run on the payment proposal stored under
\* proposal_id
create_checkpoint(proposal_id, checkpoint_type) ==
    /\ proposal_id \in DOMAIN proposal_storage
    /\ uuid_count' = uuid_count + 2
    /\ response' =
         success_response("create_checkpoint", proposal_id,
             HitlInterfaceTool_run(proposal_storage[proposal_id].payment_proposal,
                                   checkpoint_type, uuid4, now))
    /\ UNCHANGED <<now, threads>>
    /\ unchanged_flask
    /\ unchanged_fastapi

NextCheckpoint ==
    \/ \E sheet \in LedgerSheets, daily \in LedgerDailyLimits :
          /\ Cardinality(DOMAIN proposal_storage) < MaxWorkflows
          /\ submit_request(sheet, daily, "none")
    \/ \E id \in RequestIds, decision \in {"approve_all", "reject_all"} :
          submit_payment_approval(id, decision, {})
    \/ \E id \in RequestIds, checkpoint_type \in CheckpointTypes :
          /\ uuid_count - Cardinality(DOMAIN proposal_storage) < 2 * MaxPlans
          /\ create_checkpoint(id, checkpoint_type)

SpecCheckpoint == Init /\ [][NextCheckpoint]_vars

\* the checkpoint the last HITL call returned
checkpoint_made ==
    response.op = "create_checkpoint" /\ response.body.status # "ERROR"

-----------------------------------------------------------------------------
(* C24: the audit trail of a checkpoint has an entry for every transition, *)
(* and the to-state of its last entry is the checkpoint's current status;  *)
(* a proposal whose payment decision was recorded carries the trail of it. *)

C24_audit_trail ==
    /\ checkpoint_made =>
           LET trail == response.body.audit_trail
           IN  /\ trail # <<>>
               /\ "to_state" \in DOMAIN trail[Len(trail)]
               /\ trail[Len(trail)].to_state = response.body.status
    /\ \A id \in DOMAIN execution_storage :
           "audit_trail" \in DOMAIN proposal_storage[id]

-----------------------------------------------------------------------------
(* C29: the checkpoint made from a generated payment proposal asks for as  *)
(* many approvals as the proposal's approval requirements ask approvers.   *)

C29_approval_count_agreement ==
    (checkpoint_made /\ response.proposal_id \in generated_proposals) =>
        response.body.approval_workflow.required_approvals
            = proposal_storage[response.proposal_id].payment_proposal
                  .approval_requirements.required_approvers

-----------------------------------------------------------------------------
(* C26: within one payment execution the executed items are jointly        *)
(* affordable: at each executed item the balance left after the earlier    *)
(* executed items covers its amount, so the executed amounts and the fees  *)
(* on them never add up to more than the initial balance.                  *)

\* the amounts of the first n payments of a list, summed
amount_before(payments, n) ==
    SumSeq(MapSeq(SubSeq(payments, 1, n), LAMBDA p : p.amount))

C26_running_balance ==
    \A id \in DOMAIN execution_storage :
        LET executed == execution_storage[id].executed_payments
            initial_balance ==
                proposal_storage[id].excel_data.metadata.total_records
                    * DollarsC(SimulatedFundsPerRecord)
        IN  /\ \A i \in DOMAIN executed :
                   initial_balance - amount_before(executed, i - 1) >= executed[i].amount
            /\ amount_before(executed, Len(executed))
                   + processing_fee(amount_before(executed, Len(executed)))
                   <= initial_balance

-----------------------------------------------------------------------------
(* The payment formatter called on its own (PaymentFormatterTool._run as a *)
(* crew tool) on a risk report of the same records, under approval limits  *)
(* of the caller's choosing                                                *)

\* (auto_approval_limit, escalation_threshold) in mills; None: key absent
ApprovalLimits ==
    { <<None, None>>, <<None, Dollars(1000)>>, <<Dollars(1000), None>>,
      <<Dollars(1000000), Dollars(1000)>>, <<Dollars(1000000), Dollars(200000)>> }

\* the user_constraints dict holding the approval limits that are given
approval_constraints(auto_approval_limit, escalation_threshold) ==
    LET with_auto ==
            IF auto_approval_limit = None THEN <<>>
            ELSE Put(<<>>, "auto_approval_limit", auto_approval_limit)
    IN  IF escalation_threshold = None THEN with_auto
        ELSE Put(with_auto, "escalation_threshold", escalation_threshold)

\* one call of PaymentFormatterTool._run on the records and their risk report
format_payments(records, user_constraints) ==
    /\ uuid_count' = uuid_count + 1
    /\ response' =
         success_response("format_payments", None,
             [proposal |->
                  PaymentFormatterTool_run(
                      [normalized_data |-> records],
                      RiskAssessmentTool_run([normalized_data |-> records],
                                             user_constraints),
                      user_constraints, uuid4, now),
              user_constraints |-> user_constraints])
    /\ UNCHANGED <<now, threads>>
    /\ unchanged_flask
    /\ unchanged_fastapi

NextFormatter ==
    \E records \in RiskRecordSets, limits \in ApprovalLimits :
        /\ uuid_count < MaxPlans
        /\ format_payments(records, approval_constraints(limits[1], limits[2]))

SpecFormatter == Init /\ [][NextFormatter]_vars

\* the last call returned a proposal with approval requirements
payments_formatted ==
    /\ response.op = "format_payments"
    /\ "approval_requirements" \in DOMAIN response.body.proposal

-----------------------------------------------------------------------------
(* C25: a proposal with escalation_required (three approvers) also has     *)
(* requires_manual_review and an approval deadline, whatever the risk      *)
(* report and the auto_approval_limit and escalation_threshold given.      *)

C25_escalation_implies_review ==
    (payments_formatted
       /\ response.body.proposal.approval_requirements.escalation_required) =>
        /\ response.body.proposal.approval_requirements.required_approvers = 3
        /\ response.body.proposal.approval_requirements.requires_manual_review
        /\ response.body.proposal.approval_requirements.approval_deadline # None

-----------------------------------------------------------------------------
(* C27: a workflow is completed, with payment_execution among its          *)
(* completed steps, only if the payment executor's result reports success; *)
(* a workflow whose executor result is an error is in the error state.     *)

C27_completion_requires_success ==
    \A id \in DOMAIN workflow_storage :
        LET workflow == workflow_storage[id]
            execution == Get(workflow, "payment_execution", <<>>)
        IN  /\ (workflow.status = "completed"
                  \/ "payment_execution" \in Range(workflow.steps_completed)) =>
                   Get(execution, "success", FALSE)
            /\ ("payment_execution" \in DOMAIN workflow
                  /\ Get(execution, "status", "") = "error") =>
                   workflow.status = "error"

-----------------------------------------------------------------------------
(* C28: submit_request answers success with a proposal_id only if the      *)
(* workflow of that id awaits payment approval and a payment proposal is   *)
(* stored under the id, so that reading the proposal back succeeds.        *)

C28_success_implies_retrievable ==
    (response.op = "fa_submit_request" /\ response.success) =>
        /\ response.proposal_id \in DOMAIN workflow_storage
        /\ workflow_storage[response.proposal_id].status = "awaiting_payment_approval"
        /\ response.proposal_id \in DOMAIN fa_proposal_storage

-----------------------------------------------------------------------------
(* C30: in every plan with positive funds the allocations of the           *)
(* recommendations of a category sum to the category's allocation, and the *)
(* allocations of all recommendations sum to total_allocated.              *)

\* the allocations of the plan's recommendations of a category, summed
recommended_in(plan, category) ==
    SumSeq(MapSeq(SelectSeq(plan.recommended_investments,
                            LAMBDA r : r.category = category),
                  LAMBDA r : r.allocation))

C30_recommendation_conservation ==
    (plan_made /\ response.body.available_funds > 0) =>
        LET plan == response.body
            categories == plan.allocation_summary.investment_categories
        IN  /\ \A category \in DOMAIN categories :
                   recommended_in(plan, category) = categories[category].allocation
            /\ SumSeq(MapSeq(plan.recommended_investments, LAMBDA r : r.allocation))
                   = plan.allocation_summary.total_allocated

====
